---- MODULE Spec2Model ----
(***************************************************************************)
(* Model of imjasonh/dots: image -> braille art for terminals.             *)
(*                                                                         *)
(* Five specifications share this module:                                  *)
(*   SpecQuant  quantizeRGB applied to 8-bit RGB triples                   *)
(*   SpecHex    ParseHex applied to short strings                          *)
(*   SpecDim    CalculateDimensions applied to integer arguments           *)
(*   SpecBlock  extractBlock, blockToBraille and blockToANSI on one cell   *)
(*   Spec       Convert (package dots), stage by stage                     *)
(* Each specification moves only its own variables; the others rest at the *)
(* idle values given below.                                                *)
(***************************************************************************)
EXTENDS Integers, Sequences, FiniteSets, TLC

VARIABLES
  r, g, b,        \* quantizeRGB: the arguments (uint8)
  code,           \* quantizeRGB: the value returned (uint8)
  wrapped,        \* quantizeRGB: some intermediate left its integer type
  qpc,            \* quantizeRGB: "idle" | "call" | "done"
  hex,            \* ParseHex: the argument, a sequence of one-character strings
  hres,           \* ParseHex: the result [err, code]
  hpc,            \* ParseHex: "idle" | "call" | "done"
  imgWidth, imgHeight, width, height, maxWidth, maxHeight,
                  \* CalculateDimensions: the arguments (int)
  dims,           \* CalculateDimensions: the pair returned
  dpc,            \* CalculateDimensions: "idle" | "call" | "done"
  blkImg,         \* block: the *image.RGBA the block is taken from
  blkX0, blkY0,   \* block: the pixel offset of the cell
  blkThreshold,   \* block: the threshold (uint8)
  blk,            \* block: the [8]color.Color of extractBlock
  blkChar,        \* block: the rune of blockToBraille
  blkColor,       \* block: the code of blockToANSI
  bpc,            \* block: "idle" | "call" | "done"
  img,            \* Convert: the image, [W, H] = img.Bounds().Dx(), Dy()
  callerOpts,     \* Convert: the Options value the caller passed
  opts,           \* Convert: its local copy of Options
  term,           \* Convert: the terminal, [isTerm, w, h]
  noColorEnv,     \* Convert: os.Getenv("NO_COLOR") # ""
  stage,          \* Convert: the stage last completed
  resized,        \* Convert: <<width, height>> handed to resize, or <<>>
  grid,           \* Convert: the *image.RGBA resize returned
  lines,          \* Convert: brailleLines, then the slice returned
  heap,           \* applyDithering: the *image.RGBA objects, reference |-> [W, H, pix]
  dithImg,        \* applyDithering: the argument img (a reference)
  dithThreshold,  \* applyDithering: the argument threshold (uint8)
  result,         \* applyDithering: result (a reference; 0 before NewRGBA)
  dithX, dithY,   \* applyDithering: x, y of the Floyd-Steinberg loops
  fpc,            \* applyDithering: "idle" | "call" | "copy" | "loop" | "done"
  bOpts,          \* braille.Convert: its local copy of Options
  bStage,         \* braille.Convert: the stage last completed
  bTarget,        \* braille.Convert: <<targetWidth, targetHeight>>
  bGrid,          \* braille.Convert: resized, a reference into heap (0 before resize)
  bLines          \* braille.Convert: lines

qvars == <<r, g, b, code, wrapped, qpc>>
hvars == <<hex, hres, hpc>>
dvars == <<imgWidth, imgHeight, width, height, maxWidth, maxHeight, dims, dpc>>
bvars == <<blkImg, blkX0, blkY0, blkThreshold, blk, blkChar, blkColor, bpc>>
cvars == <<img, callerOpts, opts, term, noColorEnv, stage, resized, grid, lines>>
fvars == <<heap, dithImg, dithThreshold, result, dithX, dithY, fpc>>
pvars == <<bOpts, bStage, bTarget, bGrid, bLines>>
vars == <<qvars, hvars, dvars, bvars, cvars, fvars, pvars>>

(***************************************************************************)
(* Machine integers.                                                       *)
(***************************************************************************)
U8(x) == x % 256
U16(x) == x % 65536
Byte == 0..255

(***************************************************************************)
(* Colour quantization (package dots, color quantizer).                    *)
(***************************************************************************)

\* levels := []uint8{0, 95, 135, 175, 215, 255}
levels == <<0, 95, 135, 175, 215, 255>>

absDiff(a, c) == IF a > c THEN U8(a - c) ELSE U8(c - a)

\* math.Max / math.Min on float64 are exact on uint8 operands.
max3(a, c, d) ==
  LET m == IF c > d THEN c ELSE d IN U8(IF a > m THEN a ELSE m)

min3(a, c, d) ==
  LET m == IF c < d THEN c ELSE d IN U8(IF a < m THEN a ELSE m)

isGrayscale(a, c, d) == U8(max3(a, c, d) - min3(a, c, d)) < 10

\* The loop of quantizeChannel from index i on, with the loop's two locals.
RECURSIVE quantizeChannelLoop(_, _, _, _)
quantizeChannelLoop(c, i, minDist, nearest) ==
  IF i > Len(levels) THEN nearest
  ELSE LET dist == absDiff(c, levels[i])
       IN IF dist < minDist
          THEN quantizeChannelLoop(c, i + 1, dist, U8(i - 1))
          ELSE quantizeChannelLoop(c, i + 1, minDist, nearest)

\* Mutant of the loop: "dist <= minDist", the later level wins a tie.
RECURSIVE quantizeChannelLoopLe(_, _, _, _)
quantizeChannelLoopLe(c, i, minDist, nearest) ==
  IF i > Len(levels) THEN nearest
  ELSE LET dist == absDiff(c, levels[i])
       IN IF dist <= minDist
          THEN quantizeChannelLoopLe(c, i + 1, dist, U8(i - 1))
          ELSE quantizeChannelLoopLe(c, i + 1, minDist, nearest)

quantizeChannelTieHigh(c) == quantizeChannelLoopLe(c, 1, 255, 0)

quantizeChannel(c) == quantizeChannelLoop(c, 1, 255, 0)

quantizeRGBCube(a, c, d) ==
  U8(16 + 36 * quantizeChannel(a) + 6 * quantizeChannel(c) + quantizeChannel(d))

\* Mutant: the clamp "if step > 23" is missing.
quantizeGrayscaleNoClamp(a, c, d) ==
  LET avg == U16(U16(U16(a) + U16(c)) + U16(d)) \div 3
  IN IF avg < 8 THEN 16
     ELSE IF avg >= 238 THEN 231
     ELSE U8(232 + U8(U16(U16(avg - 8) * 24) \div 229))

\* Mutant: "avg <= 8" and "avg > 238" at the two ends of the ramp.
quantizeGrayscaleOffByOne(a, c, d) ==
  LET avg == U16(U16(U16(a) + U16(c)) + U16(d)) \div 3
  IN IF avg <= 8 THEN 16
     ELSE IF avg > 238 THEN 231
     ELSE LET step == U16(U16(avg - 8) * 24) \div 229
          IN U8(232 + U8(IF step > 23 THEN 23 ELSE step))

quantizeGrayscale(a, c, d) ==
  LET avg == U16(U16(U16(a) + U16(c)) + U16(d)) \div 3
  IN IF avg < 8 THEN 16
     ELSE IF avg >= 238 THEN 231
     ELSE LET step == U16(U16(avg - 8) * 24) \div 229
          IN U8(232 + U8(IF step > 23 THEN 23 ELSE step))

quantizeRGB(a, c, d) ==
  IF isGrayscale(a, c, d) THEN quantizeGrayscale(a, c, d)
  ELSE quantizeRGBCube(a, c, d)

\* TRUE iff some intermediate of quantizeRGB(a, c, d), computed in the
\* integers, falls outside the type the code computes it in.
quantizeRGBWraps(a, c, d) ==
  LET mx == IF a >= c /\ a >= d THEN a ELSE IF c >= d THEN c ELSE d
      mn == IF a <= c /\ a <= d THEN a ELSE IF c <= d THEN c ELSE d
      avg == (a + c + d) \div 3
      step == ((avg - 8) * 24) \div 229
      r6 == quantizeChannel(a)
      g6 == quantizeChannel(c)
      b6 == quantizeChannel(d)
  IN \/ mx - mn \notin Byte
     \/ /\ isGrayscale(a, c, d)
        /\ \/ a + c + d \notin 0..65535
           \/ /\ avg >= 8
              /\ avg < 238
              /\ \/ (avg - 8) * 24 \notin 0..65535
                 \/ step \notin Byte
                 \/ 232 + (IF step > 23 THEN 23 ELSE step) \notin Byte
     \/ /\ ~isGrayscale(a, c, d)
        /\ \/ 36 * r6 \notin Byte
           \/ 16 + 36 * r6 \notin Byte
           \/ 6 * g6 \notin Byte
           \/ 16 + 36 * r6 + 6 * g6 \notin Byte
           \/ 16 + 36 * r6 + 6 * g6 + b6 \notin Byte
     \/ \E i \in 1..Len(levels) :
          \E ch \in {a, c, d} :
            (IF ch > levels[i] THEN ch - levels[i] ELSE levels[i] - ch) \notin Byte

(***************************************************************************)
(* Bounds of the quantizer's inputs.                                       *)
(***************************************************************************)
\* g and b are drawn within MaxDelta of r (every low-saturation triple has
\* its channels within 9 of each other), or from CubeSamples.
MaxDelta == 10

\* Channel values at and around the cube levels and their midpoints.
CubeSamples == {0, 47, 48, 95, 115, 116, 135, 155, 175, 195, 215, 235, 236, 255}

Clip(x) == IF x < 0 THEN 0 ELSE IF x > 255 THEN 255 ELSE x

QIdle == r = 0 /\ g = 0 /\ b = 0 /\ code = 0 /\ wrapped = FALSE /\ qpc = "idle"
HIdle == hex = <<>> /\ hres = [err |-> "none", code |-> 0] /\ hpc = "idle"
DIdle ==
  /\ imgWidth = 1 /\ imgHeight = 1 /\ width = 0 /\ height = 0
  /\ maxWidth = 0 /\ maxHeight = 0 /\ dims = <<0, 0>> /\ dpc = "idle"
\* An *image.RGBA of W x H pixels at the origin, as far as the model needs
\* one: the colour bg everywhere but in the 2x4 window at org, whose pixels
\* are win[1..8], row by row.  A colour is its 8-bit <<R, G, B>>.
NoImage == [W |-> 0, H |-> 0, org |-> <<0, 0>>, win |-> <<>>, bg |-> <<0, 0, 0>>]

BIdle ==
  /\ blkImg = NoImage /\ blkX0 = 0 /\ blkY0 = 0 /\ blkThreshold = 0
  /\ blk = <<>> /\ blkChar = 0 /\ blkColor = 0 /\ bpc = "idle"
CIdle ==
  /\ img = [W |-> 1, H |-> 1]
  /\ callerOpts = [Width |-> 0, Height |-> 0, Threshold |-> 0, NoColor |-> FALSE,
                   BackgroundColor |-> -1, Frame |-> FALSE]
  /\ opts = callerOpts
  /\ term = [isTerm |-> FALSE, w |-> 0, h |-> 0]
  /\ noColorEnv = FALSE
  /\ stage = "idle"
  /\ resized = <<>>
  /\ grid = NoImage
  /\ lines = <<>>
FIdle ==
  /\ heap = <<>> /\ dithImg = 0 /\ dithThreshold = 0 /\ result = 0
  /\ dithX = 0 /\ dithY = 0 /\ fpc = "idle"
PIdle ==
  /\ bOpts = [Width |-> 0, Height |-> 0, Threshold |-> 0, Dither |-> FALSE, Color |-> FALSE]
  /\ bStage = "idle" /\ bTarget = <<0, 0>> /\ bGrid = 0 /\ bLines = <<>>

InitQuant ==
  /\ r \in Byte
  /\ \/ \E dg, db \in (0 - MaxDelta)..MaxDelta : g = Clip(r + dg) /\ b = Clip(r + db)
     \/ g \in CubeSamples /\ b \in CubeSamples
  /\ code = 0
  /\ wrapped = FALSE
  /\ qpc = "call"
  /\ HIdle /\ DIdle /\ BIdle /\ CIdle /\ FIdle /\ PIdle

\* code := quantizeRGB(r, g, b)
CallQuantizeRGB ==
  /\ qpc = "call"
  /\ code' = quantizeRGB(r, g, b)
  /\ wrapped' = quantizeRGBWraps(r, g, b)
  /\ qpc' = "done"
  /\ UNCHANGED <<r, g, b, hvars, dvars, bvars, cvars, fvars, pvars>>

NextQuant == CallQuantizeRGB

SpecQuant == InitQuant /\ [][NextQuant]_vars

(***************************************************************************)
(* Properties of quantizeRGB.                                              *)
(***************************************************************************)
\* The xterm cube levels and palette, as the claims state them.
CubeLevels == <<0, 95, 135, 175, 215, 255>>

Abs(x) == IF x < 0 THEN 0 - x ELSE x

\* Index (0..5) of the cube level nearest to c, the lower index on a tie.
NearestLevelLow(c) ==
  CHOOSE i \in 0..5 :
    /\ \A j \in 0..5 : Abs(c - CubeLevels[i + 1]) <= Abs(c - CubeLevels[j + 1])
    /\ \A j \in 0..(i - 1) : Abs(c - CubeLevels[j + 1]) > Abs(c - CubeLevels[i + 1])

Spread ==
  LET S == {r, g, b}
  IN (CHOOSE m \in S : \A x \in S : x <= m) - (CHOOSE m \in S : \A x \in S : m <= x)

Avg == (r + g + b) \div 3

MinOf(x, y) == IF x < y THEN x ELSE y

\* C1: with max - min >= 10 the result is 16 + 36*r6 + 6*g6 + b6, each index
\* that of the nearest cube level, the lower index winning a tie; pure red,
\* green and blue map to 196, 46 and 21.
C1_CubeBranch ==
  qpc = "done" =>
    /\ Spread >= 10 =>
         code = 16 + 36 * NearestLevelLow(r) + 6 * NearestLevelLow(g) + NearestLevelLow(b)
    /\ <<r, g, b>> = <<255, 0, 0>> => code = 196
    /\ <<r, g, b>> = <<0, 255, 0>> => code = 46
    /\ <<r, g, b>> = <<0, 0, 255>> => code = 21
    /\ <<r, g, b>> = <<115, 0, 0>> => code = 16 + 36 * 1
    /\ <<r, g, b>> = <<235, 0, 0>> => code = 16 + 36 * 4

\* A tie in the cube branch: 115 is 20 away from both 95 and 135.
C1_Witness == qpc = "done" /\ <<r, g, b>> = <<115, 0, 235>> /\ code = 16 + 36 * 1 + 4

\* C2: with max - min < 10 and avg = (r+g+b) div 3 the result is 16 below 8,
\* 231 from 238 on, and 232 + min(23, (avg-8)*24 div 229) in between.
C2_GrayBranch ==
  qpc = "done" =>
    /\ Spread < 10 =>
         code = IF Avg < 8 THEN 16
                ELSE IF Avg >= 238 THEN 231
                ELSE 232 + MinOf(23, ((Avg - 8) * 24) \div 229)
    /\ <<r, g, b>> = <<0, 0, 0>> => code = 16
    /\ <<r, g, b>> = <<255, 255, 255>> => code = 231
    /\ <<r, g, b>> = <<128, 128, 128>> => code = 244

\* Mid-gray lands on the ramp: avg 128 gives step 12.
C2_Witness == qpc = "done" /\ <<r, g, b>> = <<128, 128, 128>> /\ code = 244

\* C3: quantizeRGB is total (it yields a uint8 for every argument triple),
\* its result is never a system colour, the cube
\* branch stays in 16..231 and the ramp in 232..255, and no intermediate
\* leaves its integer type.
C3_ResultRange ==
  /\ qpc = "call" => quantizeRGB(r, g, b) \in Byte
  /\ qpc = "done" =>
       /\ code \in 16..255
       /\ ~wrapped
       /\ Spread >= 10 => code \in 16..231
       /\ (Spread < 10 /\ Avg >= 8 /\ Avg < 238) => code \in 232..255

\* The top of the ramp: avg 237 gives step 24, clamped to 23.
C3_Witness == qpc = "done" /\ Spread < 10 /\ Avg = 237 /\ code = 255

\* The palette colour of code p in 16..255.
PaletteRGB(p) ==
  IF p <= 231
  THEN LET k == p - 16
       IN <<CubeLevels[(k \div 36) + 1], CubeLevels[((k \div 6) % 6) + 1],
            CubeLevels[(k % 6) + 1]>>
  ELSE LET v == 8 + 10 * (p - 232) IN <<v, v, v>>

Dist2(p, q) ==
  (p[1] - q[1]) * (p[1] - q[1]) + (p[2] - q[2]) * (p[2] - q[2])
    + (p[3] - q[3]) * (p[3] - q[3])

\* C4: the returned code's palette colour is at minimal squared RGB distance
\* from (r,g,b) among the palette entries 16..255.
C4_NearestPaletteEntry ==
  qpc = "done" =>
    \A p \in 16..255 :
      Dist2(<<r, g, b>>, PaletteRGB(code)) <= Dist2(<<r, g, b>>, PaletteRGB(p))

(***************************************************************************)
(* ParseHex (package dots).  A Go string of ASCII characters is a sequence *)
(* of one-character strings; len counts them.                              *)
(***************************************************************************)

\* fmt: hexadecimalDigits = "0123456789aAbBcCdDeEfF"
hexadecimalDigits ==
  {"0", "1", "2", "3", "4", "5", "6", "7", "8", "9",
   "a", "b", "c", "d", "e", "f", "A", "B", "C", "D", "E", "F"}

\* strconv.ParseUint(tok, 16, 64) on one digit.
hexDigitValue(ch) ==
  CASE ch = "0" -> 0 [] ch = "1" -> 1 [] ch = "2" -> 2 [] ch = "3" -> 3
    [] ch = "4" -> 4 [] ch = "5" -> 5 [] ch = "6" -> 6 [] ch = "7" -> 7
    [] ch = "8" -> 8 [] ch = "9" -> 9
    [] ch \in {"a", "A"} -> 10 [] ch \in {"b", "B"} -> 11
    [] ch \in {"c", "C"} -> 12 [] ch \in {"d", "D"} -> 13
    [] ch \in {"e", "E"} -> 14 [] ch \in {"f", "F"} -> 15

\* fmt: isSpace, on the ASCII blanks other than newline.
isSpace(ch) == ch \in {" ", "\t", "\r"}

\* fmt: (*ss).SkipSpace with nlIsSpace = false, from position i (1-based).
\* Blanks are consumed; a newline is an error ("unexpected newline").
RECURSIVE SkipSpace(_, _)
SkipSpace(s, i) ==
  IF i > Len(s) THEN [pos |-> i, err |-> FALSE]
  ELSE IF s[i] = "\n" THEN [pos |-> i, err |-> TRUE]
  ELSE IF isSpace(s[i]) THEN SkipSpace(s, i + 1)
  ELSE [pos |-> i, err |-> FALSE]

\* fmt: (*ss).scanNumber: the end of the run of digits from p, below limit.
RECURSIVE acceptDigits(_, _, _)
acceptDigits(s, p, limit) ==
  IF p <= Len(s) /\ p < limit /\ s[p] \in hexadecimalDigits
  THEN acceptDigits(s, p + 1, limit)
  ELSE p

\* strconv.ParseUint(s[from..to-1], 16, 64)
RECURSIVE parseUint16(_, _, _)
parseUint16(s, from, to) ==
  IF from >= to THEN 0
  ELSE 16 * parseUint16(s, from, to - 1) + hexDigitValue(s[to - 1])

\* One verb %<maxWid>x of Sscanf into a *uint8, the input at position i:
\* doScanf skips leading blanks, then at most maxWid runes are read by
\* scanUint, which wants at least one hexadecimal digit.
scanUint(s, i, maxWid) ==
  LET sk == SkipSpace(s, i)
      end == acceptDigits(s, sk.pos, sk.pos + maxWid)
      v == parseUint16(s, sk.pos, end)
  IN IF sk.err \/ sk.pos > Len(s) \/ end = sk.pos \/ v > 255
     THEN [ok |-> FALSE, val |-> 0, pos |-> sk.pos]
     ELSE [ok |-> TRUE, val |-> v, pos |-> end]

\* fmt.Sscanf(s, "%02x%02x%02x", &r, &g, &b); input left over is no error.
Sscanf(s) ==
  LET x == scanUint(s, 1, 2)
      y == scanUint(s, x.pos, 2)
      z == scanUint(s, y.pos, 2)
  IN IF x.ok /\ y.ok /\ z.ok
     THEN [ok |-> TRUE, r |-> x.val, g |-> y.val, b |-> z.val]
     ELSE [ok |-> FALSE, r |-> 0, g |-> 0, b |-> 0]

expandHex(h) == IF Len(h) = 3 THEN <<h[1], h[1], h[2], h[2], h[3], h[3]>> ELSE h

\* Mutant: the leading '#' is not removed.
ParseHexKeepHash(h) ==
  LET h2 == expandHex(h)
  IN IF Len(h2) # 6 THEN [err |-> "length", code |-> 0]
     ELSE LET sc == Sscanf(h2)
          IN IF ~sc.ok THEN [err |-> "format", code |-> 0]
             ELSE [err |-> "none", code |-> quantizeRGB(sc.r, sc.g, sc.b)]

ParseHex(h) ==
  LET h1 == IF Len(h) > 0 /\ h[1] = "#" THEN Tail(h) ELSE h
      h2 == expandHex(h1)
  IN IF Len(h2) # 6 THEN [err |-> "length", code |-> 0]
     ELSE LET sc == Sscanf(h2)
          IN IF ~sc.ok THEN [err |-> "format", code |-> 0]
             ELSE [err |-> "none", code |-> quantizeRGB(sc.r, sc.g, sc.b)]

\* Inputs: every string over HexAlphabet of at most MaxHexLen characters.
MaxHexLen == 7
HexAlphabet == {"0", "f", "F", "g", "#", " "}

InitHex ==
  /\ \E n \in 0..MaxHexLen : hex \in [1..n -> HexAlphabet]
  /\ hres = [err |-> "none", code |-> 0]
  /\ hpc = "call"
  /\ QIdle /\ DIdle /\ BIdle /\ CIdle /\ FIdle /\ PIdle

\* code, err := ParseHex(hex)
CallParseHex ==
  /\ hpc = "call"
  /\ hres' = ParseHex(hex)
  /\ hpc' = "done"
  /\ UNCHANGED <<hex, qvars, dvars, bvars, cvars, fvars, pvars>>

NextHex == CallParseHex

SpecHex == InitHex /\ [][NextHex]_vars

(***************************************************************************)
(* Properties of ParseHex.                                                 *)
(***************************************************************************)
\* The characters [0-9a-fA-F], and the value of one, whatever its case.
IsHexDigit(ch) ==
  ch \in {"0", "1", "2", "3", "4", "5", "6", "7", "8", "9"}
    \cup {"a", "b", "c", "d", "e", "f"} \cup {"A", "B", "C", "D", "E", "F"}

ToLower(ch) ==
  CASE ch = "A" -> "a" [] ch = "B" -> "b" [] ch = "C" -> "c"
    [] ch = "D" -> "d" [] ch = "E" -> "e" [] ch = "F" -> "f"
    [] OTHER -> ch

LowerDigits == <<"0", "1", "2", "3", "4", "5", "6", "7", "8", "9",
                 "a", "b", "c", "d", "e", "f">>

DigitValue(ch) == (CHOOSE i \in 1..16 : LowerDigits[i] = ToLower(ch)) - 1

\* The input after at most one leading '#' is stripped.
HexBody == IF Len(hex) > 0 /\ hex[1] = "#" THEN Tail(hex) ELSE hex

AllHex(s) == \A i \in 1..Len(s) : IsHexDigit(s[i])

WellFormedHex == Len(HexBody) \in {3, 6} /\ AllHex(HexBody)

\* C5: ParseHex returns an error for every input that, after stripping at
\* most one leading '#', is not exactly 3 or 6 hexadecimal digits.
C5_RejectsMalformed ==
  (hpc = "done" /\ ~WellFormedHex) => hres.err # "none"

\* C6: for hex digits X, Y, Z of either case, "XYZ", "#XYZ", "XXYYZZ" and
\* "#XXYYZZ" all parse, to quantizeRGB(0xXX, 0xYY, 0xZZ).
C6_SpellingIndependent ==
  hpc = "done" =>
    LET s == HexBody
        V(i) == DigitValue(s[i])
    IN /\ (Len(s) = 3 /\ AllHex(s)) =>
            hres = [err |-> "none",
                    code |-> quantizeRGB(17 * V(1), 17 * V(2), 17 * V(3))]
       /\ (Len(s) = 6 /\ AllHex(s) /\ V(1) = V(2) /\ V(3) = V(4) /\ V(5) = V(6)) =>
            hres = [err |-> "none",
                    code |-> quantizeRGB(17 * V(1), 17 * V(3), 17 * V(5))]
       /\ hex \in {<<"f", "0", "0">>, <<"#", "F", "0", "0">>,
                   <<"f", "F", "0", "0", "0", "0">>,
                   <<"#", "F", "f", "0", "0", "0", "0">>} =>
            hres = [err |-> "none", code |-> 196]

\* The '#'-prefixed upper-case shorthand for red.
C6_Witness ==
  hpc = "done" /\ hex = <<"#", "F", "0", "0">> /\ hres = [err |-> "none", code |-> 196]

(***************************************************************************)
(* CalculateDimensions (package dots).                                     *)
(***************************************************************************)

\* int(x) of the float64 quotient num/den, den > 0: truncation toward zero.
\* The code forms the quotient in float64 (float64(a)*float64(b)/float64(c)
\* then /2.0 or *2.0); for operands whose product is below 2^53 the rounded
\* quotient truncates to the same integer as the exact one.
truncQuot(num, den) ==
  IF num >= 0 THEN num \div den ELSE 0 - ((0 - num) \div den)

\* int(float64(w) * float64(imgH) / float64(imgW) / 2.0)
heightForWidth(imgW, imgH, w) == truncQuot(w * imgH, imgW * 2)

\* int(float64(h) * float64(imgW) / float64(imgH) * 2.0)
widthForHeight(imgW, imgH, h) == truncQuot(h * imgW * 2, imgH)

\* Mutant: explicit dimensions are clamped to the maximum.
CalculateDimensionsClamped(imgW, imgH, w, h, maxW, maxH) ==
  IF w > 0 /\ h > 0
  THEN <<IF maxW > 0 /\ w > maxW THEN maxW ELSE w,
         IF maxH > 0 /\ h > maxH THEN maxH ELSE h>>
  ELSE <<0, 0>>

\* Mutant: the derived dimension of the automatic fit is raised to 1, as in
\* the branches for one explicit dimension.
CalculateDimensionsAutoFloor(imgW, imgH, w, h, maxW, maxH) ==
  IF maxW > 0 /\ maxH > 0 /\ ~(w > 0) /\ ~(h > 0)
  THEN LET hfw == heightForWidth(imgW, imgH, maxW)
           wfh == widthForHeight(imgW, imgH, maxH)
       IN IF hfw <= maxH
          THEN <<maxW, IF hfw = 0 THEN 1 ELSE hfw>>
          ELSE <<IF wfh = 0 THEN 1 ELSE wfh, maxH>>
  ELSE <<0, 0>>

CalculateDimensions(imgW, imgH, w, h, maxW, maxH) ==
  IF w > 0 /\ h > 0 THEN <<w, h>>
  ELSE IF w > 0 /\ h = 0
  THEN LET hh == heightForWidth(imgW, imgH, w)
       IN <<w, IF hh = 0 THEN 1 ELSE hh>>
  ELSE IF h > 0 /\ w = 0
  THEN LET ww == widthForHeight(imgW, imgH, h)
       IN <<IF ww = 0 THEN 1 ELSE ww, h>>
  ELSE IF maxW > 0 /\ maxH > 0
  THEN LET hfw == heightForWidth(imgW, imgH, maxW)
           wfh == widthForHeight(imgW, imgH, maxH)
       IN IF hfw <= maxH THEN <<maxW, hfw>> ELSE <<wfh, maxH>>
  ELSE <<0, 0>>

\* Inputs: image sides in 1..MaxImgDim or one of the listed sizes; requested
\* sizes in -1..MaxReqDim or listed; maxima in -1..MaxMaxDim or listed.
MaxImgDim == 3
MaxReqDim == 2
MaxMaxDim == 2
ImgDims == 1..MaxImgDim \cup {10, 50, 100, 200, 1000, 1080, 1920}
ReqDims == (0 - 1)..MaxReqDim \cup {10, 25, 50, 80}
MaxDims == (0 - 1)..MaxMaxDim \cup {24, 80}

InitDim ==
  /\ imgWidth \in ImgDims /\ imgHeight \in ImgDims
  /\ width \in ReqDims /\ height \in ReqDims
  /\ maxWidth \in MaxDims /\ maxHeight \in MaxDims
  /\ dims = <<0, 0>>
  /\ dpc = "call"
  /\ QIdle /\ HIdle /\ BIdle /\ CIdle /\ FIdle /\ PIdle

\* dims := CalculateDimensions(imgWidth, imgHeight, width, height, maxWidth, maxHeight)
CallCalculateDimensions ==
  /\ dpc = "call"
  /\ dims' = CalculateDimensions(imgWidth, imgHeight, width, height, maxWidth, maxHeight)
  /\ dpc' = "done"
  /\ UNCHANGED <<imgWidth, imgHeight, width, height, maxWidth, maxHeight,
                 qvars, hvars, bvars, cvars, fvars, pvars>>

NextDim == CallCalculateDimensions

SpecDim == InitDim /\ [][NextDim]_vars

(***************************************************************************)
(* Properties of CalculateDimensions.                                      *)
(***************************************************************************)
DimArgs == <<imgWidth, imgHeight, width, height, maxWidth, maxHeight>>

MaxOf(x, y) == IF x > y THEN x ELSE y

\* C7: with both width > 0 and height > 0 requested the result is exactly
\* (width, height), whatever the image size and the maxima.
C7_ExplicitUnchanged ==
  (dpc = "done" /\ width > 0 /\ height > 0) => dims = <<width, height>>

\* Explicit 50x25 wins over the 80x24 maximum, height above the maximum.
C7_Witness ==
  dpc = "done" /\ DimArgs = <<100, 100, 50, 25, 80, 24>> /\ dims = <<50, 25>>

\* C8: with only the width requested (height not > 0) the result is
\* (width, max(1, trunc(width*imgH/imgW/2))), with only the height requested
\* (width not > 0) it is (max(1, trunc(height*imgW/imgH*2)), height),
\* whatever the maxima.
C8_OneRequested ==
  dpc = "done" =>
    /\ (width > 0 /\ ~(height > 0)) =>
         dims = <<width, MaxOf(1, (width * imgHeight) \div (2 * imgWidth))>>
    /\ (height > 0 /\ ~(width > 0)) =>
         dims = <<MaxOf(1, (2 * height * imgWidth) \div imgHeight), height>>

\* C9: with neither requested the result is (maxW, hForW) when both maxima
\* are > 0 and hForW <= maxH, (wForH, maxH) when hForW > maxH, and (0, 0)
\* when a maximum is not > 0.
C9_AutoFit ==
  dpc = "done" =>
    /\ (~(width > 0) /\ ~(height > 0)) =>
         LET hForW == (maxWidth * imgHeight) \div (2 * imgWidth)
             wForH == (2 * maxHeight * imgWidth) \div imgHeight
         IN dims = IF maxWidth > 0 /\ maxHeight > 0
                   THEN IF hForW <= maxHeight THEN <<maxWidth, hForW>>
                        ELSE <<wForH, maxHeight>>
                   ELSE <<0, 0>>
    /\ DimArgs = <<100, 100, 0, 0, 80, 24>> => dims = <<48, 24>>
    /\ DimArgs = <<200, 50, 0, 0, 80, 24>> => dims = <<80, 10>>
    /\ DimArgs = <<50, 200, 0, 0, 80, 24>> => dims = <<12, 24>>
    /\ DimArgs = <<100, 100, 0, 0, 0, 0>> => dims = <<0, 0>>

\* A height-constrained fit computed by truncation: 24*50/200*2 = 12.
C9_Witness ==
  dpc = "done" /\ DimArgs = <<50, 200, 0, 0, 80, 24>> /\ dims = <<12, 24>>

(***************************************************************************)
(* float64 arithmetic of the luminance (IEEE 754 binary64, every product   *)
(* and every sum rounded on its own, to nearest, ties to even).            *)
(***************************************************************************)

\* A non-negative binary fixed-point number with 56 fractional bits, held as
\* three limbs of 22 bits, least significant first.  The three weights are
\* multiples of 2^-56 and every value met is below 2^64.
RECURSIVE pow2(_)
pow2(k) == IF k = 0 THEN 1 ELSE 2 * pow2(k - 1)

RECURSIVE bitLen(_)
bitLen(n) == IF n = 0 THEN 0 ELSE 1 + bitLen(n \div 2)

Limb == pow2(22)

limbsNorm(a) ==
  LET c1 == a[1] \div Limb
      c2 == (a[2] + c1) \div Limb
  IN <<a[1] % Limb, (a[2] + c1) % Limb, a[3] + c2>>

limbsAdd(a, c) == limbsNorm(<<a[1] + c[1], a[2] + c[2], a[3] + c[3]>>)

\* a * n for 0 <= n <= 255
limbsMulSmall(a, n) == limbsNorm(<<a[1] * n, a[2] * n, a[3] * n>>)

limbsBitLen(a) ==
  IF a[3] > 0 THEN 44 + bitLen(a[3])
  ELSE IF a[2] > 0 THEN 22 + bitLen(a[2]) ELSE bitLen(a[1])

\* Rounding to a float64: to 53 significant bits, ties to even.  Below 2^64
\* at most 11 bits are dropped, all of them in the lowest limb.
roundToFloat64(a) ==
  IF limbsBitLen(a) <= 53 THEN a
  ELSE LET unit == pow2(limbsBitLen(a) - 53)
           rest == a[1] % unit
           kept == <<a[1] - rest, a[2], a[3]>>
           odd == (a[1] \div unit) % 2 = 1
       IN IF 2 * rest > unit \/ (2 * rest = unit /\ odd)
          THEN limbsAdd(kept, <<unit, 0, 0>>)
          ELSE kept

\* The conversion of a float64 in [0, 256) to uint8: the integer part, the
\* bits from 2^56 on.
truncToInt(a) == a[3] \div pow2(12)

\* A hexadecimal numeral, given by its digits' values, most significant first.
RECURSIVE limbsFromHex(_)
limbsFromHex(ds) ==
  IF Len(ds) = 0 THEN <<0, 0, 0>>
  ELSE limbsAdd(limbsMulSmall(limbsFromHex(SubSeq(ds, 1, Len(ds) - 1)), 16),
                <<ds[Len(ds)], 0, 0>>)

\* The constants 0.299, 0.587 and 0.114 as float64:
\*   0.299 = 0x1.322d0e5604189p-2 = 0x1322d0e5604189 * 2^-54
\*   0.587 = 0x1.2c8b439581062p-1 = 0x12c8b439581062 * 2^-53
\*   0.114 = 0x1.d2f1a9fbe76c9p-4 = 0x1d2f1a9fbe76c9 * 2^-56
f64_0_299 ==
  limbsMulSmall(limbsFromHex(<<1, 3, 2, 2, 13, 0, 14, 5, 6, 0, 4, 1, 8, 9>>), 4)
f64_0_587 ==
  limbsMulSmall(limbsFromHex(<<1, 2, 12, 8, 11, 4, 3, 9, 5, 8, 1, 0, 6, 2>>), 8)
f64_0_114 ==
  limbsFromHex(<<1, 13, 2, 15, 1, 10, 9, 15, 11, 14, 7, 6, 12, 9>>)

\* c * float64(n) and x + y, each rounded.
f64Mul(c, n) == roundToFloat64(limbsMulSmall(c, n))
f64Add(x, y) == roundToFloat64(limbsAdd(x, y))

\* x + c * float64(n) rounded once (a fused multiply-add).
f64FMA(c, n, x) == roundToFloat64(limbsAdd(limbsMulSmall(c, n), x))

\* The luminance with both additions fused with a product; not what
\* blockToBraille is modelled to compute.
luminanceFused(r8, g8, b8) ==
  U8(truncToInt(f64FMA(f64_0_114, b8, f64FMA(f64_0_587, g8, f64Mul(f64_0_299, r8)))))

\* blockToBraille:
\*   luminance := uint8(0.299*float64(r8) + 0.587*float64(g8) + 0.114*float64(b8))
luminance(r8, g8, b8) ==
  U8(truncToInt(f64Add(f64Add(f64Mul(f64_0_299, r8), f64Mul(f64_0_587, g8)),
                       f64Mul(f64_0_114, b8))))

(***************************************************************************)
(* Blocks of 2x4 pixels (package dots).                                    *)
(***************************************************************************)

Black == <<0, 0, 0>>
White == <<255, 255, 255>>

\* The colour given to the pixels around a cell under study.
Filler == <<255, 0, 0>>

\* A grey of luminance 10, between the thresholds 0 and 20.
Dim == <<10, 10, 10>>

\* The colours of the mixed cells: the reds either side of the first step of
\* the colour cube, a grey whose luminance is 127, white.
MixColours == <<<<47, 0, 0>>, <<48, 0, 0>>, <<128, 128, 128>>, White>>

\* Every colour a pixel takes in the specifications below, and the luminance
\* of each, computed once.
Palette == {Black, White, Filler, Dim, <<200, 120, 30>>} \cup {MixColours[i] : i \in 1..4}
paletteLuminance == [c \in Palette |-> luminance(c[1], c[2], c[3])]

\* The luminance of every grey (v, v, v), computed once.
greyLuminance == [v \in 0..255 |-> luminance(v, v, v)]

\* color.RGBA.RGBA(): each 8-bit channel c widened to 16 bits, c | c<<8.
\* color.Black is Gray16{0}, whose RGBA() gives zeros as Black's does.
RGBA(c) == <<c[1] * 257, c[2] * 257, c[3] * 257>>

\* (*image.RGBA).At: the pixel, color.RGBA{} outside the bounds.  Of a grid
\* that lists its pixels (pix, each <<R, G, B, A>>) the channels R, G, B are
\* given: color.RGBA.RGBA() takes no account of A.
At(m, x, y) ==
  IF x < 0 \/ y < 0 \/ x >= m.W \/ y >= m.H THEN <<0, 0, 0>>
  ELSE IF "pix" \in DOMAIN m
       THEN <<m.pix[y * m.W + x + 1][1], m.pix[y * m.W + x + 1][2],
              m.pix[y * m.W + x + 1][3]>>
  ELSE IF x - m.org[1] \in 0..1 /\ y - m.org[2] \in 0..3
       THEN m.win[2 * (y - m.org[2]) + (x - m.org[1]) + 1]
       ELSE m.bg

\* extractBlock: positions, in the order of the block's samples.
positions(x0, y0) ==
  <<<<x0, y0>>, <<x0, y0 + 1>>, <<x0, y0 + 2>>, <<x0 + 1, y0>>,
    <<x0, y0 + 3>>, <<x0 + 1, y0 + 1>>, <<x0 + 1, y0 + 2>>, <<x0 + 1, y0 + 3>>>>

\* extractBlock with the positions in the order of the layout its comment
\* draws (0 3 / 1 4 / 2 5 / 6 7); not what the function does.
extractBlockAsDrawn(m, x0, y0) ==
  LET drawn == <<<<x0, y0>>, <<x0, y0 + 1>>, <<x0, y0 + 2>>, <<x0 + 1, y0>>,
                 <<x0 + 1, y0 + 1>>, <<x0 + 1, y0 + 2>>, <<x0, y0 + 3>>,
                 <<x0 + 1, y0 + 3>>>>
  IN [i \in 1..8 |->
        IF drawn[i][1] < m.W /\ drawn[i][2] < m.H
        THEN At(m, drawn[i][1], drawn[i][2]) ELSE Black]

\* extractBlock taking its samples one pixel to the right; not what the
\* function does.
extractBlockShifted(m, x0, y0) ==
  [i \in 1..8 |->
     LET pos == positions(x0 + 1, y0)[i]
     IN IF pos[1] < m.W /\ pos[2] < m.H THEN At(m, pos[1], pos[2]) ELSE Black]

\* extractBlock: block[i] is the pixel at positions[i], color.Black when that
\* lies right of or below the image.  Sample i of the code is block[i + 1].
extractBlock(m, x0, y0) ==
  [i \in 1..8 |->
     LET pos == positions(x0, y0)[i]
     IN IF pos[1] < m.W /\ pos[2] < m.H THEN At(m, pos[1], pos[2]) ELSE Black]

\* pattern |= (1 << i) on a uint8
setBit(pattern, i) ==
  IF (pattern \div pow2(i)) % 2 = 1 THEN pattern ELSE U8(pattern + pow2(i))

\* The 8-bit channels blockToBraille takes from a sample: uint8(r>>8), ...
channels8(c) ==
  <<U8(RGBA(c)[1] \div 256), U8(RGBA(c)[2] \div 256), U8(RGBA(c)[3] \div 256)>>

\* The luminance blockToBraille computes for a sample.
sampleLuminance(c) ==
  IF channels8(c) \in Palette THEN paletteLuminance[channels8(c)]
  ELSE luminance(channels8(c)[1], channels8(c)[2], channels8(c)[3])

\* blockToBraille with "luminance >= threshold"; not what the function does.
RECURSIVE blockToBrailleGeLoop(_, _, _, _)
blockToBrailleGeLoop(block, threshold, i, pattern) ==
  IF i > 7 THEN pattern
  ELSE blockToBrailleGeLoop(block, threshold, i + 1,
         IF sampleLuminance(block[i + 1]) >= threshold
         THEN setBit(pattern, i) ELSE pattern)

blockToBrailleGe(block, threshold) ==
  10240 + blockToBrailleGeLoop(block, threshold, 0, 0)

\* blockToBraille evaluated with the fused luminance; not what the function
\* is modelled to compute.
RECURSIVE blockToBrailleFusedLoop(_, _, _, _)
blockToBrailleFusedLoop(block, threshold, i, pattern) ==
  IF i > 7 THEN pattern
  ELSE blockToBrailleFusedLoop(block, threshold, i + 1,
         IF luminanceFused(channels8(block[i + 1])[1], channels8(block[i + 1])[2],
                           channels8(block[i + 1])[3]) > threshold
         THEN setBit(pattern, i) ELSE pattern)

blockToBrailleFused(block, threshold) ==
  10240 + blockToBrailleFusedLoop(block, threshold, 0, 0)

\* blockToBraille: the loop over the samples, i = 0..7; next is pattern
\* after the turn for sample i.
RECURSIVE blockToBrailleLoop(_, _, _, _)
blockToBrailleLoop(block, threshold, i, pattern) ==
  IF i > 7 THEN pattern
  ELSE CHOOSE out \in
         {blockToBrailleLoop(block, threshold, i + 1, next) :
            next \in {IF sampleLuminance(block[i + 1]) > threshold
                      THEN setBit(pattern, i) ELSE pattern}} : TRUE

\* blockToBraille: rune(0x2800 + int(pattern)); 0x2800 = 10240.
blockToBraille(block, threshold) ==
  10240 + blockToBrailleLoop(block, threshold, 0, 0)

\* The sums of the samples' 16-bit channels (uint32; at most 8 * 65535).
RECURSIVE channelSum(_, _, _)
channelSum(block, ch, i) ==
  IF i > 8 THEN 0 ELSE RGBA(block[i])[ch] + channelSum(block, ch, i + 1)

\* blockToANSI averaging the 8-bit channels; not what the function does.
RECURSIVE channelSum8(_, _, _)
channelSum8(block, ch, i) ==
  IF i > 8 THEN 0 ELSE block[i][ch] + channelSum8(block, ch, i + 1)

blockToANSIMean8(block) ==
  quantizeRGB(U8(channelSum8(block, 1, 1) \div 8), U8(channelSum8(block, 2, 1) \div 8),
              U8(channelSum8(block, 3, 1) \div 8))

\* blockToANSI: r := uint8((rSum / 8) >> 8), ...; quantizeRGB(r, g, b)
blockToANSI(block) ==
  CHOOSE out \in
    {quantizeRGB(mean[1], mean[2], mean[3]) :
       mean \in {<<U8((channelSum(block, 1, 1) \div 8) \div 256),
                   U8((channelSum(block, 2, 1) \div 8) \div 256),
                   U8((channelSum(block, 3, 1) \div 8) \div 256)>>}} : TRUE

(***************************************************************************)
(* One cell: extractBlock, blockToBraille, blockToANSI.                    *)
(***************************************************************************)

\* The image holds BlockCols x BlockRows cells, less one pixel column or one
\* pixel row in some cases; the cell taken is any of them.
BlockCols == 2
BlockRows == 1

\* Thresholds tried with every black-and-white cell.
EdgeThresholds == {0, 20, 128, 254, 255}

\* Thresholds tried with the mixed cells.
MixThresholds == {13, 14, 126, 127}

\* i copies of the first mixed colour, then j of the second, k of the third,
\* the rest of the fourth.
MixWindow(i, j, k) ==
  [n \in 1..8 |->
     IF n <= i THEN MixColours[1]
     ELSE IF n <= i + j THEN MixColours[2]
     ELSE IF n <= i + j + k THEN MixColours[3] ELSE MixColours[4]]

\* The windows tried: four named ones at every threshold, every
\* black-and-white one and the mixed ones at the thresholds above.
BlockCases ==
  {[win |-> w, t |-> t] :
     w \in {[n \in 1..8 |-> White], [n \in 1..8 |-> Black],
            [n \in 1..8 |-> IF n = 1 THEN White ELSE Black],
            [n \in 1..8 |-> IF n = 8 THEN White ELSE Black]},
     t \in Byte}
  \cup {[win |-> w, t |-> t] : w \in [1..8 -> {Black, White}], t \in EdgeThresholds}
  \cup {[win |-> MixWindow(ijk[1], ijk[2], ijk[3]), t |-> t] :
          ijk \in {v \in (0..8) \X (0..8) \X (0..8) : v[1] + v[2] + v[3] <= 8},
          t \in MixThresholds}

InitBlock ==
  /\ \E col \in 0..(BlockCols - 1), row \in 0..(BlockRows - 1), c \in BlockCases,
        clip \in {<<0, 0>>, <<1, 0>>, <<0, 1>>} :
       /\ blkX0 = col * 2
       /\ blkY0 = row * 4
       /\ blkThreshold = c.t
       /\ blkImg = [W |-> 2 * BlockCols - clip[1], H |-> 4 * BlockRows - clip[2],
                    org |-> <<col * 2, row * 4>>, win |-> c.win, bg |-> Filler]
  /\ blk = <<>> /\ blkChar = 0 /\ blkColor = 0
  /\ bpc = "call"
  /\ QIdle /\ HIdle /\ DIdle /\ CIdle /\ FIdle /\ PIdle

\* The body of Convert's loop over the cells:
\*   block := extractBlock(resized, x0, y0)
\*   char := blockToBraille(block, opts.Threshold)
\*   fgColor := blockToANSI(block)
CallBlock ==
  /\ bpc = "call"
  /\ blk' = extractBlock(blkImg, blkX0, blkY0)
  /\ blkChar' = blockToBraille(blk', blkThreshold)
  /\ blkColor' = blockToANSI(blk')
  /\ bpc' = "done"
  /\ UNCHANGED <<blkImg, blkX0, blkY0, blkThreshold, qvars, hvars, dvars, cvars, fvars, pvars>>

NextBlock == CallBlock

SpecBlock == InitBlock /\ [][NextBlock]_vars

(***************************************************************************)
(* Properties of extractBlock, blockToBraille and blockToANSI.             *)
(***************************************************************************)

\* The offsets (dx, dy) of sample i = 0..7 within its cell.
SampleOffsets ==
  <<<<0, 0>>, <<0, 1>>, <<0, 2>>, <<1, 0>>, <<0, 3>>, <<1, 1>>, <<1, 2>>, <<1, 3>>>>

\* The cell lies wholly inside the image.
CellInside == blkX0 + 2 <= blkImg.W /\ blkY0 + 4 <= blkImg.H

\* The pixel at (blkX0 + dx, blkY0 + dy) of a cell inside the image.
CellPixel(dx, dy) == blkImg.win[2 * dy + dx + 1]

Bit(n, i) == (n \div pow2(i)) % 2

\* 0.299R + 0.587G + 0.114B in thousandths, and its integer part.
Weighted(c) == 299 * c[1] + 587 * c[2] + 114 * c[3]
Luma(c) == IF c \in Palette THEN paletteLuminance[c] ELSE luminance(c[1], c[2], c[3])

C12_NamedBlocks ==
  bpc = "done" =>
    /\ (\A i \in 1..8 : blk[i] = Black) => blkChar = 10240
    /\ blkThreshold < 255 =>
         /\ (\A i \in 1..8 : blk[i] = White) => blkChar = 10495
         /\ (\A i \in 1..8 : blk[i] = IF i = 1 THEN White ELSE Black) => blkChar = 10241
         /\ (\A i \in 1..8 : blk[i] = IF i = 8 THEN White ELSE Black) => blkChar = 10368

C12_Witness ==
  /\ bpc = "done" /\ blkThreshold = 254
  /\ \A i \in 1..8 : blk[i] = White
  /\ blkChar = 10495

\* The bit of a Unicode braille pattern (U+2800 + bits) that raises the dot
\* at column dx, row dy: 0 3 / 1 4 / 2 5 / 6 7.
DotBit(dx, dy) == IF dy = 3 THEN 6 + dx ELSE 3 * dx + dy

\* C13: for every cell and every (dx, dy) in {0,1} x {0..3}, the dot at
\* column dx, row dy of the glyph is raised iff the pixel (x0+dx, y0+dy) has
\* luminance above the threshold.
C13_DotsWherePixelsAre ==
  (bpc = "done" /\ CellInside) =>
    \A dx \in 0..1, dy \in 0..3 :
      Bit(blkChar - 10240, DotBit(dx, dy)) = 1 <=> Luma(CellPixel(dx, dy)) > blkThreshold

\* The sum of the samples' 8-bit values of channel ch.
RECURSIVE Sum8(_, _)
Sum8(ch, i) == IF i > 8 THEN 0 ELSE blk[i][ch] + Sum8(ch, i + 1)

\* C14 as stated: blockToANSI returns quantizeRGB(sumR div 8, sumG div 8,
\* sumB div 8) of the sums of the 8-bit values.
C14_MeanOfBytes ==
  bpc = "done" =>
    blkColor = quantizeRGB(Sum8(1, 1) \div 8, Sum8(2, 1) \div 8, Sum8(3, 1) \div 8)

\* C14 amended: blockToANSI returns quantizeRGB(m(sumR), m(sumG), m(sumB))
\* with m(s) = (257 * s) div 2048, the truncated mean of the 16-bit channel
\* values (257 times the 8-bit ones) reduced to its high byte; m(s) is
\* s div 8 or s div 8 + 1.
C14_MeanOfWords ==
  bpc = "done" =>
    /\ blkColor = quantizeRGB((257 * Sum8(1, 1)) \div 2048, (257 * Sum8(2, 1)) \div 2048,
                              (257 * Sum8(3, 1)) \div 2048)
    /\ \A ch \in 1..3 :
         (257 * Sum8(ch, 1)) \div 2048 \in {Sum8(ch, 1) \div 8, Sum8(ch, 1) \div 8 + 1}

\* One red of 47 and seven of 48: the bytes' mean is 47 (cube level 0, code
\* 16), the value quantized is 48 (cube level 1, code 52).
C14_Witness ==
  /\ bpc = "done" /\ CellInside
  /\ blkImg.win = MixWindow(1, 7, 0)
  /\ Sum8(1, 1) \div 8 = 47
  /\ blkColor = 52

(***************************************************************************)
(* Strings.  A Go string is the sequence of its runes' code points; len    *)
(* counts the bytes of its UTF-8 encoding.                                 *)
(***************************************************************************)

\* The bytes of a rune in UTF-8.
utf8Len(rn) == IF rn < 128 THEN 1 ELSE IF rn < 2048 THEN 2 ELSE IF rn < 65536 THEN 3 ELSE 4

\* The bytes of the runes lo..hi of s.
RECURSIVE lenBytes(_, _, _)
lenBytes(s, lo, hi) ==
  IF lo > hi THEN 0
  ELSE IF lo = hi THEN utf8Len(s[lo])
  ELSE lenBytes(s, lo, (lo + hi) \div 2) + lenBytes(s, (lo + hi) \div 2 + 1, hi)

\* len(s): the bytes of s
len(s) == lenBytes(s, 1, Len(s))

\* fmt's %d of a uint8: its decimal digits ('0' is 48).
RECURSIVE Itoa(_)
Itoa(n) ==
  CHOOSE out \in
    {IF num < 10 THEN <<48 + num>> ELSE Itoa(num \div 10) \o <<48 + (num % 10)>> :
       num \in {n}} : TRUE

\* ansiFgColor with the background's selector 48 for the foreground's 38;
\* not what the function does.
ansiFgColorAsBackground(c) == <<27, 91, 52, 56, 59, 53, 59>> \o Itoa(c) \o <<109>>

\* ansiFgColor: fmt.Sprintf("\x1b[38;5;%dm", code)
ansiFgColor(c) == <<27, 91, 51, 56, 59, 53, 59>> \o Itoa(c) \o <<109>>

\* ansiFgBgColor: fmt.Sprintf("\x1b[38;5;%d;48;5;%dm", fgCode, bgCode)
ansiFgBgColor(fgCode, bgCode) ==
  <<27, 91, 51, 56, 59, 53, 59>> \o Itoa(fgCode)
    \o <<59, 52, 56, 59, 53, 59>> \o Itoa(bgCode) \o <<109>>

\* ansiReset: "\x1b[0m"
ansiReset == <<27, 91, 48, 109>>

\* visibleWidth: one turn of the loop, on rune rn with inEscape as it
\* stands: <<the width gained, inEscape afterwards>>.
visibleWidthStep(rn, inEscape) ==
  IF rn = 27 THEN <<0, TRUE>>
  ELSE IF inEscape THEN <<0, rn # 109>>
  ELSE <<1, FALSE>>

\* visibleWidth: the loop over the runes lo..hi of s in order, entered with
\* inEscape as given: <<the width gained, inEscape afterwards>>.  The range
\* is run as its first half followed by its second.
RECURSIVE visibleWidthLoop(_, _, _, _)
visibleWidthLoop(s, lo, hi, inEscape) ==
  IF lo > hi THEN <<0, inEscape>>
  ELSE IF lo = hi THEN visibleWidthStep(s[lo], inEscape)
  ELSE CHOOSE out \in UNION
         {{<<first[1] + second[1], second[2]>> :
             second \in {visibleWidthLoop(s, (lo + hi) \div 2 + 1, hi, first[2])}} :
            first \in {visibleWidthLoop(s, lo, (lo + hi) \div 2, inEscape)}} : TRUE

visibleWidth(s) == visibleWidthLoop(s, 1, Len(s), FALSE)[1]

\* repeatString: s repeated n times ("for range n": nothing when n <= 0).
RECURSIVE repeatString(_, _)
repeatString(s, n) == IF n <= 0 THEN <<>> ELSE s \o repeatString(s, n - 1)

\* addFrame sizing the border by visibleWidth in both modes; not what the
\* function does.
addFrameVisible(ls, noColor) ==
  IF Len(ls) = 0 THEN ls
  ELSE LET w == visibleWidth(ls[1])
           whiteColor == IF noColor THEN <<>> ELSE <<27, 91, 51, 56, 59, 53, 59, 49, 53, 109>>
           reset == IF noColor THEN <<>> ELSE ansiReset
       IN [i \in 1..(Len(ls) + 2) |->
             IF i = 1
             THEN whiteColor \o <<9484>> \o repeatString(<<9472>>, w) \o <<9488>> \o reset
             ELSE IF i = Len(ls) + 2
             THEN whiteColor \o <<9492>> \o repeatString(<<9472>>, w) \o <<9496>> \o reset
             ELSE whiteColor \o <<9474>> \o reset \o ls[i - 1] \o whiteColor \o <<9474>> \o reset]

\* addFrame with the coloured border in both modes; not what the function
\* does.
addFrameColoured(ls, noColor) ==
  IF Len(ls) = 0 THEN ls
  ELSE LET w == IF ~noColor THEN visibleWidth(ls[1]) ELSE len(ls[1])
           whiteColor == <<27, 91, 51, 56, 59, 53, 59, 49, 53, 109>>
           reset == ansiReset
       IN [i \in 1..(Len(ls) + 2) |->
             IF i = 1
             THEN whiteColor \o <<9484>> \o repeatString(<<9472>>, w) \o <<9488>> \o reset
             ELSE IF i = Len(ls) + 2
             THEN whiteColor \o <<9492>> \o repeatString(<<9472>>, w) \o <<9496>> \o reset
             ELSE whiteColor \o <<9474>> \o reset \o ls[i - 1] \o whiteColor \o <<9474>> \o reset]

\* addFrame.  The box-drawing runes: U+250C 9484, U+2500 9472, U+2510 9488,
\* U+2502 9474, U+2514 9492, U+2518 9496; whiteColor is "\x1b[38;5;15m".
addFrame(ls, noColor) ==
  IF Len(ls) = 0 THEN ls
  ELSE LET whiteColor == IF noColor THEN <<>> ELSE <<27, 91, 51, 56, 59, 53, 59, 49, 53, 109>>
           reset == IF noColor THEN <<>> ELSE ansiReset
       IN CHOOSE framed \in
            {[i \in 1..(Len(ls) + 2) |->
                IF i = 1
                THEN whiteColor \o <<9484>> \o repeatString(<<9472>>, w) \o <<9488>> \o reset
                ELSE IF i = Len(ls) + 2
                THEN whiteColor \o <<9492>> \o repeatString(<<9472>>, w) \o <<9496>> \o reset
                ELSE whiteColor \o <<9474>> \o reset \o ls[i - 1]
                       \o whiteColor \o <<9474>> \o reset] :
               w \in {IF ~noColor THEN visibleWidth(ls[1]) ELSE len(ls[1])}} : TRUE

(***************************************************************************)
(* Convert (package dots), stage by stage.                                 *)
(***************************************************************************)

\* getTerminalSize: the size of the terminal on stdout, 80x24 without one.
getTerminalSize(t) == IF t.isTerm THEN <<t.w, t.h>> ELSE <<80, 24>>

\* Options.BackgroundColor is a *uint8: NilColor stands for the nil pointer.
NilColor == 0 - 1

\* What Convert appends to line for the cell at (col, row), the background
\* left out; not what Convert does.
renderCellNoBackground(m, col, row, o) ==
  LET block == extractBlock(m, col * 2, row * 4)
      char == blockToBraille(block, o.Threshold)
  IN IF ~o.NoColor
     THEN ansiFgColor(blockToANSI(block)) \o <<char>> \o ansiReset
     ELSE <<char>>

\* What Convert appends to line for the cell at (col, row), the reset left
\* out; not what Convert does.
renderCellNoReset(m, col, row, o) ==
  LET block == extractBlock(m, col * 2, row * 4)
      char == blockToBraille(block, o.Threshold)
  IN IF ~o.NoColor
     THEN IF o.BackgroundColor # NilColor
          THEN ansiFgBgColor(blockToANSI(block), o.BackgroundColor) \o <<char>>
          ELSE ansiFgColor(blockToANSI(block)) \o <<char>>
     ELSE <<char>>

\* Convert: what the body of the loop over col appends to line.
renderCell(m, col, row, o) ==
  LET block == extractBlock(m, col * 2, row * 4)
      char == blockToBraille(block, o.Threshold)
  IN IF ~o.NoColor
     THEN IF o.BackgroundColor # NilColor
          THEN ansiFgBgColor(blockToANSI(block), o.BackgroundColor) \o <<char>> \o ansiReset
          ELSE ansiFgColor(blockToANSI(block)) \o <<char>> \o ansiReset
     ELSE <<char>>

\* Convert: the loop over col, from col on, line being what is built so far.
RECURSIVE renderLine(_, _, _, _, _)
renderLine(m, row, o, col, line) ==
  IF col >= o.Width THEN line
  ELSE renderLine(m, row, o, col + 1, line \o renderCell(m, col, row, o))

\* Convert: brailleLines after the loop over row; make([]string, opts.Height)
\* with its rows filled in.
renderBlocks(m, o) == [row \in 1..o.Height |-> renderLine(m, row - 1, o, 0, <<>>)]

\* Inputs of Convert: requested sizes 0..MaxOptDim and terminals of
\* 1..MaxTermDim cells a side with the images of ConvertImages; automatic
\* sizing without a terminal with the images of ElongatedImages; the 8x16
\* image at Width 4, Height 4, Threshold 128 of TestConvert.
MaxOptDim == 3
MaxTermDim == 2
ConvertImages == {[W |-> 8, H |-> 16], [W |-> 4, H |-> 1], [W |-> 1, H |-> 8]}
ElongatedImages == {[W |-> 1000, H |-> 1], [W |-> 1, H |-> 1000]}
NoTerminal == [isTerm |-> FALSE, w |-> 0, h |-> 0]
ConvertTerminals == {[isTerm |-> TRUE, w |-> t, h |-> t] : t \in 1..MaxTermDim}

\* What the resampler may return, whatever its size: one colour throughout,
\* or black with one 2x4 window of other pixels, at the second cell of the
\* first row or at the first cell of the second row.
DimWindow == [n \in 1..8 |-> IF n = 1 THEN Dim ELSE IF n = 8 THEN White ELSE Black]
GreyWindow == [n \in 1..8 |-> IF n <= 4 THEN MixColours[3] ELSE White]
ResampledContents ==
  {[org |-> <<0, 0>>, win |-> [n \in 1..8 |-> c], bg |-> c] : c \in {White, Dim, Black}}
    \cup {[org |-> <<2, 0>>, win |-> GreyWindow, bg |-> Black],
          [org |-> <<0, 4>>, win |-> DimWindow, bg |-> Black]}

Init ==
  /\ \/ /\ img \in ConvertImages
        /\ term \in ConvertTerminals
        /\ opts \in [Width : 0..MaxOptDim, Height : 0..MaxOptDim, Threshold : {0, 128},
                     NoColor : BOOLEAN, BackgroundColor : {NilColor, 21},
                     Frame : BOOLEAN]
     \/ /\ img \in ElongatedImages
        /\ term = NoTerminal
        /\ opts \in [Width : {0}, Height : {0}, Threshold : {0, 128},
                     NoColor : BOOLEAN, BackgroundColor : {NilColor, 21},
                     Frame : BOOLEAN]
     \/ /\ img = [W |-> 8, H |-> 16]
        /\ term = NoTerminal
        /\ opts \in [Width : {4}, Height : {4}, Threshold : {128},
                     NoColor : BOOLEAN, BackgroundColor : {NilColor},
                     Frame : BOOLEAN]
  /\ callerOpts = opts
  /\ noColorEnv \in BOOLEAN
  /\ stage = "Init"
  /\ resized = <<>>
  /\ grid = NoImage
  /\ lines = <<>>
  /\ QIdle /\ HIdle /\ DIdle /\ BIdle /\ FIdle /\ PIdle

\* Convert without the default threshold; not what Convert does.
ResolveOptionsNoDefault ==
  /\ stage = "Init"
  /\ opts' = [opts EXCEPT !.NoColor = IF noColorEnv THEN TRUE ELSE @]
  /\ stage' = "ResolveOptions"
  /\ UNCHANGED <<img, callerOpts, term, noColorEnv, resized, grid, lines,
                 qvars, hvars, dvars, bvars, fvars, pvars>>

\* Convert without the look at NO_COLOR; not what Convert does.
ResolveOptionsNoEnv ==
  /\ stage = "Init"
  /\ opts' = [opts EXCEPT !.Threshold = IF @ = 0 THEN 20 ELSE @]
  /\ stage' = "ResolveOptions"
  /\ UNCHANGED <<img, callerOpts, term, noColorEnv, resized, grid, lines,
                 qvars, hvars, dvars, bvars, fvars, pvars>>

\* Convert: "Set defaults" and "Respect NO_COLOR environment variable".
ResolveOptions ==
  /\ stage = "Init"
  /\ opts' = [opts EXCEPT
                !.Threshold = IF @ = 0 THEN 20 ELSE @,
                !.NoColor = IF noColorEnv THEN TRUE ELSE @]
  /\ stage' = "ResolveOptions"
  /\ UNCHANGED <<img, callerOpts, term, noColorEnv, resized, grid, lines,
                 qvars, hvars, dvars, bvars, fvars, pvars>>

\* Convert with explicit dimensions left as given under a frame; not what
\* Convert does.
ResolveDimensionsKeepExplicit ==
  /\ stage = "ResolveOptions"
  /\ opts' =
       IF opts.Width = 0 \/ opts.Height = 0
       THEN LET ts == getTerminalSize(term)
                termWidth == IF opts.Frame THEN ts[1] - 2 ELSE ts[1]
                termHeight == IF opts.Frame THEN ts[2] - 2 ELSE ts[2]
                d == CalculateDimensions(img.W, img.H, opts.Width, opts.Height,
                                         termWidth, termHeight)
            IN [opts EXCEPT !.Width = d[1], !.Height = d[2]]
       ELSE opts
  /\ stage' = "ResolveDimensions"
  /\ UNCHANGED <<img, callerOpts, term, noColorEnv, resized, grid, lines,
                 qvars, hvars, dvars, bvars, fvars, pvars>>

\* Convert fitting the whole terminal, the frame's cells not taken off; not
\* what Convert does.
ResolveDimensionsWholeTerminal ==
  /\ stage = "ResolveOptions"
  /\ opts' =
       IF opts.Width = 0 \/ opts.Height = 0
       THEN LET ts == getTerminalSize(term)
                d == CalculateDimensions(img.W, img.H, opts.Width, opts.Height,
                                         ts[1], ts[2])
            IN [opts EXCEPT !.Width = d[1], !.Height = d[2]]
       ELSE IF opts.Frame
       THEN [opts EXCEPT
               !.Width = IF @ - 2 < 1 THEN 1 ELSE @ - 2,
               !.Height = IF @ - 2 < 1 THEN 1 ELSE @ - 2]
       ELSE opts
  /\ stage' = "ResolveDimensions"
  /\ UNCHANGED <<img, callerOpts, term, noColorEnv, resized, grid, lines,
                 qvars, hvars, dvars, bvars, fvars, pvars>>

\* Convert: "Calculate dimensions if not both specified", else the frame
\* reduction of explicit dimensions.
ResolveDimensions ==
  /\ stage = "ResolveOptions"
  /\ opts' =
       IF opts.Width = 0 \/ opts.Height = 0
       THEN LET ts == getTerminalSize(term)
                termWidth == IF opts.Frame THEN ts[1] - 2 ELSE ts[1]
                termHeight == IF opts.Frame THEN ts[2] - 2 ELSE ts[2]
                d == CalculateDimensions(img.W, img.H, opts.Width, opts.Height,
                                         termWidth, termHeight)
            IN [opts EXCEPT !.Width = d[1], !.Height = d[2]]
       ELSE IF opts.Frame
       THEN [opts EXCEPT
               !.Width = IF @ - 2 < 1 THEN 1 ELSE @ - 2,
               !.Height = IF @ - 2 < 1 THEN 1 ELSE @ - 2]
       ELSE opts
  /\ stage' = "ResolveDimensions"
  /\ UNCHANGED <<img, callerOpts, term, noColorEnv, resized, grid, lines,
                 qvars, hvars, dvars, bvars, fvars, pvars>>

\* Convert: resized := resize(img, opts.Width*2, opts.Height*4).  The
\* resampler is golang.org/x/image/draw's: what it puts in the pixels is any
\* of ResampledContents.
Resample ==
  /\ stage = "ResolveDimensions"
  /\ resized' = <<opts.Width * 2, opts.Height * 4>>
  /\ \E c \in ResampledContents :
       grid' = [W |-> opts.Width * 2, H |-> opts.Height * 4,
                org |-> c.org, win |-> c.win, bg |-> c.bg]
  /\ stage' = "Resample"
  /\ UNCHANGED <<img, callerOpts, opts, term, noColorEnv, lines,
                 qvars, hvars, dvars, bvars, fvars, pvars>>

\* Convert: "Step 2 & 3: Brightness and color quantization", the loops over
\* row and col that fill brailleLines.
RenderBlocks ==
  /\ stage = "Resample"
  /\ lines' = renderBlocks(grid, opts)
  /\ stage' = "RenderBlocks"
  /\ UNCHANGED <<img, callerOpts, opts, term, noColorEnv, resized, grid,
                 qvars, hvars, dvars, bvars, fvars, pvars>>

\* Convert: "Add frame if requested": return addFrame(brailleLines, opts.NoColor)
Frame ==
  /\ stage = "RenderBlocks"
  /\ opts.Frame
  /\ lines' = addFrame(lines, opts.NoColor)
  /\ stage' = "Done"
  /\ UNCHANGED <<img, callerOpts, opts, term, noColorEnv, resized, grid,
                 qvars, hvars, dvars, bvars, fvars, pvars>>

\* Convert: return brailleLines
Return ==
  /\ stage = "RenderBlocks"
  /\ ~opts.Frame
  /\ stage' = "Done"
  /\ UNCHANGED <<img, callerOpts, opts, term, noColorEnv, resized, grid, lines,
                 qvars, hvars, dvars, bvars, fvars, pvars>>

Next == ResolveOptions \/ ResolveDimensions \/ Resample \/ RenderBlocks \/ Frame \/ Return

Spec == Init /\ [][Next]_vars

(***************************************************************************)
(* Properties of Convert.                                                  *)
(***************************************************************************)

\* C10: the resolved (width, height) handed to the resampler satisfy
\* width >= 1 and height >= 1, for every image of positive size, every
\* Options value and every terminal size.
C10_ResampleDimsPositive ==
  stage = "Resample" =>
    /\ opts.Width >= 1 /\ opts.Height >= 1
    /\ resized = <<opts.Width * 2, opts.Height * 4>>

\* Colour is enabled: NoColor is false and NO_COLOR is empty.
ColourOn == ~(callerOpts.NoColor \/ noColorEnv)

IsGlyph(rn) == rn \in 10240..10495

\* The glyphs of a line, in order.
Glyphs(s) == SelectSeq(s, IsGlyph)

\* The lines that carry cells: all of them, or all but the frame's two.
ContentLines ==
  IF ~opts.Frame THEN lines
  ELSE IF Len(lines) >= 2 THEN SubSeq(lines, 2, Len(lines) - 1) ELSE <<>>

\* The block of the cell at column col, row row (from 0) of the grid.
CellBlock(col, row) ==
  [i \in 1..8 |->
     At(grid, 2 * col + SampleOffsets[i][1], 4 * row + SampleOffsets[i][2])]

\* The threshold Convert is to use.
EffectiveThreshold == IF callerOpts.Threshold = 0 THEN 20 ELSE callerOpts.Threshold

\* The glyph of a block at threshold t.
RECURSIVE PatternFrom(_, _, _)
PatternFrom(block, t, i) ==
  IF i > 7 THEN 0
  ELSE (IF Luma(block[i + 1]) > t THEN pow2(i) ELSE 0) + PatternFrom(block, t, i + 1)

GlyphOf(block, t) == 10240 + PatternFrom(block, t, 0)

\* C15: Convert returns (resolved height) lines without Frame and (resolved
\* height + 2) with it; every content line carries (resolved width) glyphs,
\* the cells' in column order, the rows top to bottom.
C15_LinesAndGlyphs ==
  stage = "Done" =>
    /\ Len(lines) = IF opts.Frame THEN opts.Height + 2 ELSE opts.Height
    /\ \A row \in 1..Len(ContentLines) :
         Glyphs(ContentLines[row]) =
           [col \in 1..opts.Width |-> GlyphOf(CellBlock(col - 1, row - 1), opts.Threshold)]

\* s contains sub as a substring.
Contains(s, sub) ==
  \E i \in 1..(Len(s) - Len(sub) + 1) : SubSeq(s, i, i + Len(sub) - 1) = sub

\* The decimal digits of n in 0..255.
Digits(n) ==
  IF n >= 100 THEN <<48 + (n \div 100), 48 + ((n \div 10) % 10), 48 + (n % 10)>>
  ELSE IF n >= 10 THEN <<48 + (n \div 10), 48 + (n % 10)>>
  ELSE <<48 + n>>

\* ";48;5;"
BackgroundMark == <<59, 52, 56, 59, 53, 59>>

\* C16 as stated: with BackgroundColor set to c every line returned contains
\* ";48;5;c"; with BackgroundColor nil no line contains ";48;5;".
C16_BackgroundEverywhere ==
  stage = "Done" =>
    /\ callerOpts.BackgroundColor # NilColor =>
         \A n \in 1..Len(lines) :
           Contains(lines[n], BackgroundMark \o Digits(callerOpts.BackgroundColor))
    /\ callerOpts.BackgroundColor = NilColor =>
         \A n \in 1..Len(lines) : ~Contains(lines[n], BackgroundMark)

\* The places where sub occurs in s.
Occurrences(s, sub) ==
  {i \in 1..(Len(s) - Len(sub) + 1) : SubSeq(s, i, i + Len(sub) - 1) = sub}

\* C16 amended: with colour enabled and BackgroundColor set to c, every
\* content line contains ";48;5;" once per cell (resolved width times), each
\* time followed by c and 'm', and the frame's top and bottom lines do not
\* contain it; with colour disabled or BackgroundColor nil no line contains
\* ";48;5;".
C16_BackgroundWhenColoured ==
  stage = "Done" =>
    /\ (ColourOn /\ callerOpts.BackgroundColor # NilColor) =>
         /\ \A n \in 1..Len(ContentLines) :
              /\ Cardinality(Occurrences(ContentLines[n], BackgroundMark)) = opts.Width
              /\ Occurrences(ContentLines[n], BackgroundMark) =
                   Occurrences(ContentLines[n],
                               BackgroundMark \o Digits(callerOpts.BackgroundColor) \o <<109>>)
         /\ (opts.Frame /\ Len(lines) >= 2) =>
              /\ ~Contains(lines[1], BackgroundMark)
              /\ ~Contains(lines[Len(lines)], BackgroundMark)
    /\ (~ColourOn \/ callerOpts.BackgroundColor = NilColor) =>
         \A n \in 1..Len(lines) : ~Contains(lines[n], BackgroundMark)

C16_Witness ==
  /\ stage = "Done" /\ ColourOn /\ callerOpts.BackgroundColor = 21
  /\ opts.Frame /\ opts.Width >= 2 /\ opts.Height >= 1
  /\ Len(lines) = opts.Height + 2

\* C17: with colour disabled (NoColor true, or NO_COLOR non-empty whatever
\* NoColor says) no line returned contains ESC, whatever BackgroundColor and
\* Frame are; without Frame each line is (resolved width) runes, all of them
\* in 0x2800..0x28FF.
C17_NoEscapeWhenColourOff ==
  (stage = "Done" /\ ~ColourOn) =>
    /\ \A n \in 1..Len(lines) : \A i \in 1..Len(lines[n]) : lines[n][i] # 27
    /\ ~opts.Frame =>
         \A n \in 1..Len(lines) :
           /\ Len(lines[n]) = opts.Width
           /\ \A i \in 1..Len(lines[n]) : IsGlyph(lines[n][i])

\* NO_COLOR alone disables colour, with a background and a frame asked for.
C17_Witness ==
  /\ stage = "Done" /\ noColorEnv /\ ~callerOpts.NoColor
  /\ callerOpts.BackgroundColor = 21 /\ opts.Frame
  /\ opts.Width >= 1 /\ Len(lines) >= 3

\* ESC [ 3 8 ; 5 ; fg m, or ESC [ 3 8 ; 5 ; fg ; 4 8 ; 5 ; bg m, then the
\* glyph, then ESC [ 0 m.
ColouredCell(fg, bg, glyph) ==
  <<27, 91, 51, 56, 59, 53, 59>> \o Digits(fg)
    \o (IF bg = NilColor THEN <<>> ELSE <<59, 52, 56, 59, 53, 59>> \o Digits(bg))
    \o <<109, glyph, 27, 91, 48, 109>>

RECURSIVE ColouredCells(_, _)
ColouredCells(row, col) ==
  IF col >= opts.Width THEN <<>>
  ELSE ColouredCell(blockToANSI(CellBlock(col, row)), callerOpts.BackgroundColor,
                    GlyphOf(CellBlock(col, row), opts.Threshold))
         \o ColouredCells(row, col + 1)

\* The frame's side bar in colour: ESC[38;5;15m, U+2502, ESC[0m.
SideBar == <<27, 91, 51, 56, 59, 53, 59, 49, 53, 109, 9474, 27, 91, 48, 109>>

\* C18: with colour enabled every cell of every content line is exactly
\* ESC[38;5;{fg}m glyph ESC[0m, or ESC[38;5;{fg};48;5;{bg}m glyph ESC[0m
\* when a background is set, fg being blockToANSI of the cell's block (in
\* 16..255) and bg the caller's code.
C18_CellFormat ==
  (stage = "Done" /\ ColourOn) =>
    \A row \in 1..Len(ContentLines) :
      /\ ContentLines[row] =
           IF opts.Frame THEN SideBar \o ColouredCells(row - 1, 0) \o SideBar
           ELSE ColouredCells(row - 1, 0)
      /\ \A col \in 0..(opts.Width - 1) : blockToANSI(CellBlock(col, row - 1)) \in 16..255

\* Two cells of different colours side by side, with a background.
C18_Witness ==
  /\ stage = "Done" /\ ColourOn /\ callerOpts.BackgroundColor = 21
  /\ opts.Width >= 2 /\ opts.Height >= 1 /\ ~opts.Frame
  /\ grid.win = GreyWindow
  /\ blockToANSI(CellBlock(0, 0)) # blockToANSI(CellBlock(1, 0))

\* C19: with Threshold 0 Convert uses 20, and any other threshold as given:
\* bit i of every cell's glyph is set iff sample i's luminance exceeds that
\* threshold, so the lines for Threshold 0 are those for Threshold 20.
C19_DefaultThreshold ==
  stage = "Done" =>
    /\ \A row \in 1..Len(ContentLines) :
         Glyphs(ContentLines[row]) =
           [col \in 1..opts.Width |-> GlyphOf(CellBlock(col - 1, row - 1), EffectiveThreshold)]
    /\ lines = IF opts.Frame
               THEN addFrame(renderBlocks(grid, [opts EXCEPT !.Threshold = EffectiveThreshold]),
                             opts.NoColor)
               ELSE renderBlocks(grid, [opts EXCEPT !.Threshold = EffectiveThreshold])

\* Threshold 0 on pixels of luminance 10: dark, as at threshold 20.
C19_Witness ==
  /\ stage = "Done" /\ callerOpts.Threshold = 0
  /\ grid.bg = Dim /\ opts.Width >= 1 /\ opts.Height >= 1 /\ ~opts.Frame
  /\ Glyphs(lines[1])[1] = 10240

\* Rune i of s lies in an escape sequence (from ESC up to the next 'm'):
\* it is an ESC, or an ESC precedes it with no 'm' in between.
InEscape(s, i) ==
  \/ s[i] = 27
  \/ \E j \in 1..(i - 1) : s[j] = 27 /\ \A k \in (j + 1)..(i - 1) : s[k] # 109

\* The runes of s outside its escape sequences.
Visible(s) ==
  LET keep == [i \in 1..Len(s) |-> ~InEscape(s, i)]
      IsKept(p) == keep[p[1]]
      kept == SelectSeq([i \in 1..Len(s) |-> <<i, s[i]>>], IsKept)
  IN [i \in 1..Len(kept) |-> kept[i][2]]

Bars(n) == [i \in 1..n |-> 9472]

\* C20: around content lines of n cells, in either colour mode, the top and
\* bottom borders are a corner, n horizontal bars and a corner, and every
\* line of the framed output has visible width n + 2.
C20_FrameBorders ==
  (stage = "Done" /\ opts.Frame /\ Len(lines) > 0) =>
    /\ Visible(lines[1]) = <<9484>> \o Bars(opts.Width) \o <<9488>>
    /\ Visible(lines[Len(lines)]) = <<9492>> \o Bars(opts.Width) \o <<9496>>
    /\ \A n \in 1..Len(lines) : Len(Visible(lines[n])) = opts.Width + 2

\* What getTerminalSize gave Convert, less the frame's two cells per axis.
TermLessFrame ==
  LET ts == getTerminalSize(term)
  IN IF callerOpts.Frame THEN <<ts[1] - 2, ts[2] - 2>> ELSE ts

\* The stages from which opts holds the resolved dimensions.
Resolved == stage \in {"ResolveDimensions", "Resample", "RenderBlocks", "Done"}

\* C21: with Frame on and Width = W > 0 and Height = H > 0 both given, the
\* content grid is max(1, W-2) by max(1, H-2) cells, so for W, H >= 3 the
\* framed output has exactly H lines; with at most one of them given the one
\* given is kept as it is and only the terminal's size is reduced by 2 per
\* axis before CalculateDimensions is asked.
C21_FrameReduction ==
  (Resolved /\ callerOpts.Frame) =>
    /\ (callerOpts.Width > 0 /\ callerOpts.Height > 0) =>
         /\ opts.Width = MaxOf(1, callerOpts.Width - 2)
         /\ opts.Height = MaxOf(1, callerOpts.Height - 2)
         /\ stage = "Done" =>
              /\ Len(ContentLines) = MaxOf(1, callerOpts.Height - 2)
              /\ \A n \in 1..Len(ContentLines) :
                   Len(Glyphs(ContentLines[n])) = MaxOf(1, callerOpts.Width - 2)
              /\ (callerOpts.Width >= 3 /\ callerOpts.Height >= 3) =>
                   Len(lines) = callerOpts.Height
    /\ (callerOpts.Width = 0 \/ callerOpts.Height = 0) =>
         /\ callerOpts.Width > 0 => opts.Width = callerOpts.Width
         /\ callerOpts.Height > 0 => opts.Height = callerOpts.Height
         /\ <<opts.Width, opts.Height>> =
              CalculateDimensions(img.W, img.H, callerOpts.Width, callerOpts.Height,
                                  TermLessFrame[1], TermLessFrame[2])

\* Width 3, Height 3 with a frame: one cell inside, three lines in all.
C21_Witness ==
  /\ stage = "Done" /\ callerOpts.Frame
  /\ callerOpts.Width = 3 /\ callerOpts.Height = 3
  /\ opts.Width = 1 /\ opts.Height = 1
  /\ Len(lines) = 3


\* The grid resize returned has colour c in every pixel: what a uniformly
\* coloured image of colour c is resampled to.
UniformGrid(c) == grid.bg = c /\ \A n \in 1..8 : grid.win[n] = c

\* The glyph of a block of eight samples of colour c at threshold t.
UniformGlyph(c, t) == 10240 + (IF Luma(c) > t THEN 255 ELSE 0)

\* C22: a uniformly coloured image, resampled to a uniformly coloured grid,
\* gives the same glyph in every cell; all white at Width 4, Height 4,
\* Threshold 128 with colour disabled gives 4 lines of 4 glyphs U+28FF, all
\* black 4 lines of 4 glyphs U+2800.
C22_UniformImage ==
  stage = "Done" =>
    /\ \A c \in {White, Black, Dim} :
         UniformGrid(c) =>
           \A n \in 1..Len(ContentLines) :
             Glyphs(ContentLines[n]) =
               [col \in 1..opts.Width |-> UniformGlyph(c, opts.Threshold)]
    /\ ( /\ callerOpts.Width = 4 /\ callerOpts.Height = 4
         /\ callerOpts.Threshold = 128 /\ ~ColourOn /\ ~callerOpts.Frame ) =>
         /\ UniformGrid(White) => lines = [n \in 1..4 |-> [col \in 1..4 |-> 10495]]
         /\ UniformGrid(Black) => lines = [n \in 1..4 |-> [col \in 1..4 |-> 10240]]

C22_Witness ==
  /\ stage = "Done" /\ img = [W |-> 8, H |-> 16]
  /\ callerOpts = [Width |-> 4, Height |-> 4, Threshold |-> 128, NoColor |-> TRUE,
                   BackgroundColor |-> NilColor, Frame |-> FALSE]
  /\ UniformGrid(White)
  /\ lines = <<<<10495, 10495, 10495, 10495>>, <<10495, 10495, 10495, 10495>>,
               <<10495, 10495, 10495, 10495>>, <<10495, 10495, 10495, 10495>>>>


\* Neither Width nor Height was given.
AutoSized == callerOpts.Width = 0 /\ callerOpts.Height = 0

\* C30 as stated: with neither Width nor Height given, the glyph cells of a
\* content row are at most termWidth - (2 if Frame else 0), the content rows
\* at most termHeight - (2 if Frame else 0), the lines returned at most
\* termHeight.
C30_FitsTerminal ==
  (stage = "Done" /\ AutoSized) =>
    /\ \A n \in 1..Len(ContentLines) : Len(Glyphs(ContentLines[n])) <= TermLessFrame[1]
    /\ Len(ContentLines) <= TermLessFrame[2]
    /\ Len(lines) <= getTerminalSize(term)[2]

\* C30 amended: with neither Width nor Height given, the glyph cells of a
\* content row are at most max(0, termWidth - (2 if Frame else 0)), the
\* content rows at most max(0, termHeight - (2 if Frame else 0)), the lines
\* returned at most termHeight, and no line is returned when the terminal
\* less the frame has no positive room in one axis; CalculateDimensions with
\* no dimension requested and maxW, maxH > 0 returns outW <= maxW and
\* outH <= maxH.
C30_FitsTerminalOrEmpty ==
  (stage = "Done" /\ AutoSized) =>
    /\ \A n \in 1..Len(ContentLines) :
         Len(Glyphs(ContentLines[n])) <= MaxOf(0, TermLessFrame[1])
    /\ Len(ContentLines) <= MaxOf(0, TermLessFrame[2])
    /\ Len(lines) <= getTerminalSize(term)[2]
    /\ (TermLessFrame[1] <= 0 \/ TermLessFrame[2] <= 0) => lines = <<>>
    /\ (TermLessFrame[1] > 0 /\ TermLessFrame[2] > 0) =>
         LET d == CalculateDimensions(img.W, img.H, 0, 0, TermLessFrame[1], TermLessFrame[2])
         IN /\ d[1] <= TermLessFrame[1] /\ d[2] <= TermLessFrame[2]
            /\ <<opts.Width, opts.Height>> = d

\* A framed render that fills the 24 lines of the fallback terminal.
C30_Witness ==
  /\ stage = "Done" /\ AutoSized /\ callerOpts.Frame
  /\ ~term.isTerm /\ img = [W |-> 1, H |-> 1000]
  /\ opts.Height = 22 /\ Len(lines) = 24


(***************************************************************************)
(* applyDithering (package braille): Floyd-Steinberg dithering of an       *)
(* *image.RGBA.  A grid is [W, H, pix]: bounds (0,0)-(W,H) as resize makes *)
(* them, pix the color.RGBA values <<R, G, B, A>> row by row.              *)
(***************************************************************************)

\* (*image.RGBA).PixOffset, counted in pixels from 1.
PixOffset(m, x, y) == y * m.W + x + 1

InBounds(m, x, y) == x >= 0 /\ x < m.W /\ y >= 0 /\ y < m.H

\* image.NewRGBA(bounds): every pixel color.RGBA{}.
NewRGBAGrid(W, H) == [W |-> W, H |-> H, pix |-> [i \in 1..(W * H) |-> <<0, 0, 0, 0>>]]

\* (*image.RGBA).RGBAAt
RGBAAt(m, x, y) == IF InBounds(m, x, y) THEN m.pix[PixOffset(m, x, y)] ELSE <<0, 0, 0, 0>>

\* (*image.RGBA).SetRGBA
SetRGBA(m, x, y, c) ==
  IF InBounds(m, x, y) THEN [m EXCEPT !.pix[PixOffset(m, x, y)] = c] ELSE m

\* applyDithering: "Copy image to result", result.Set(x, y, img.At(x, y)) for
\* every pixel of the bounds; RGBAModel leaves a color.RGBA as it is.
copyPixels(src, dst) ==
  [dst EXCEPT !.pix = [i \in 1..(dst.W * dst.H) |->
                         RGBAAt(src, (i - 1) % dst.W, (i - 1) \div dst.W)]]

\* uint8(0.299*float64(r) + 0.587*float64(g) + 0.114*float64(b)) of a pixel.
ditherLuminance(p) ==
  IF p[1] = p[2] /\ p[2] = p[3] THEN greyLuminance[p[1]]
  ELSE IF <<p[1], p[2], p[3]>> \in Palette THEN paletteLuminance[<<p[1], p[2], p[3]>>]
  ELSE luminance(p[1], p[2], p[3])

\* int(float64(err) * factor) for factor = sixteenths/16: the product is
\* exact in float64, the conversion truncates toward zero.
errorShare(err, sixteenths) == truncQuot(err * sixteenths, 16)

\* distributeError with the share rounded down (floor) instead of toward
\* zero; not what the function does.
distributeErrorFloor(m, x, y, dx, dy, sixteenths, err) ==
  IF InBounds(m, x + dx, y + dy)
  THEN LET oldColor == RGBAAt(m, x + dx, y + dy)
           sum == oldColor[1] + ((err * sixteenths) \div 16)
           newValue == IF sum < 0 THEN 0 ELSE IF sum > 255 THEN 255 ELSE sum
       IN SetRGBA(m, x + dx, y + dy, <<newValue, newValue, newValue, 255>>)
  ELSE m

\* distributeError wrapping round to the next row's start and to the first
\* row instead of skipping neighbours outside the bounds; not what the
\* function does.
distributeErrorWrap(m, x, y, dx, dy, sixteenths, err) ==
  LET nx == (x + dx + m.W) % m.W
      ny == (y + dy) % m.H
      oldColor == RGBAAt(m, nx, ny)
      sum == oldColor[1] + errorShare(err, sixteenths)
      newValue == IF sum < 0 THEN 0 ELSE IF sum > 255 THEN 255 ELSE sum
  IN SetRGBA(m, nx, ny, <<newValue, newValue, newValue, 255>>)

\* distributeError(dx, dy, factor) of the pixel (x, y) with error err, on
\* the grid m as it stands (taken once, as cur).
distributeError(m, x, y, dx, dy, sixteenths, err) ==
  CHOOSE out \in
    {IF InBounds(cur, x + dx, y + dy)
     THEN LET oldColor == RGBAAt(cur, x + dx, y + dy)
              sum == oldColor[1] + errorShare(err, sixteenths)
              newValue == IF sum < 0 THEN 0 ELSE IF sum > 255 THEN 255 ELSE sum
          IN SetRGBA(cur, x + dx, y + dy, <<newValue, newValue, newValue, 255>>)
     ELSE cur : cur \in {m}} : TRUE

\* The body of the Floyd-Steinberg loops sending a share of the error back
\* to the left neighbour as well; not what applyDithering does.
ditherPixelBackward(m, x, y, threshold) ==
  LET lum == ditherLuminance(RGBAAt(m, x, y))
      newPixel == IF lum > threshold THEN 255 ELSE 0
      err == lum - newPixel
      m0 == SetRGBA(m, x, y, <<newPixel, newPixel, newPixel, 255>>)
      m1 == distributeError(m0, x, y, 1, 0, 7, err)
      m2 == distributeError(m1, x, y, 0 - 1, 0, 3, err)
      m3 == distributeError(m2, x, y, 0, 1, 5, err)
  IN distributeError(m3, x, y, 1, 1, 1, err)

\* The body of the Floyd-Steinberg loops keeping the pixel's alpha and
\* writing the luminance left after the error; not what applyDithering does.
ditherPixelSoft(m, x, y, threshold) ==
  LET oldPixel == RGBAAt(m, x, y)
      lum == ditherLuminance(oldPixel)
      newPixel == IF lum > threshold THEN 255 ELSE lum
  IN SetRGBA(m, x, y, <<newPixel, newPixel, newPixel, oldPixel[4]>>)

\* applyDithering: the body of the Floyd-Steinberg loops for the pixel (x, y).
ditherPixel(m, x, y, threshold) ==
  LET oldPixel == RGBAAt(m, x, y)
      lum == ditherLuminance(oldPixel)
      newPixel == IF lum > threshold THEN 255 ELSE 0
      err == lum - newPixel
      m0 == SetRGBA(m, x, y, <<newPixel, newPixel, newPixel, 255>>)
      m1 == distributeError(m0, x, y, 1, 0, 7, err)
      m2 == distributeError(m1, x, y, 0 - 1, 1, 3, err)
      m3 == distributeError(m2, x, y, 0, 1, 5, err)
  IN distributeError(m3, x, y, 1, 1, 1, err)

\* applyDithering: the Floyd-Steinberg loops from the k-th pixel in raster
\* order (from 0) on.
RECURSIVE ditherLoop(_, _, _)
ditherLoop(m, k, threshold) ==
  IF k >= m.W * m.H THEN m
  ELSE ditherLoop(ditherPixel(m, k % m.W, k \div m.W, threshold), k + 1, threshold)

\* applyDithering(img, threshold): the grid returned.
applyDithering(m, threshold) ==
  ditherLoop(copyPixels(m, NewRGBAGrid(m.W, m.H)), 0, threshold)

\* Inputs of applyDithering: grids of the sizes of DitherSizes with every
\* pixel one of DitherColours (transparent black, an opaque orange of
\* luminance 133, opaque white), at the thresholds of DitherThresholds.
Clear == <<0, 0, 0, 0>>
Orange == <<200, 120, 30, 255>>
Opaque(c) == <<c[1], c[2], c[3], 255>>
DitherColours == {Clear, Orange, Opaque(White)}
DitherSizes == {<<3, 2>>, <<2, 1>>, <<1, 2>>, <<0, 0>>}
DitherThresholds == {20, 128, 200, 255}
DitherGrids ==
  UNION {{[W |-> d[1], H |-> d[2], pix |-> p] : p \in [1..(d[1] * d[2]) -> DitherColours]} :
           d \in DitherSizes}

InitDither ==
  /\ \E m \in DitherGrids : heap = <<m>>
  /\ dithImg = 1
  /\ dithThreshold \in DitherThresholds
  /\ result = 0
  /\ dithX = 0 /\ dithY = 0
  /\ fpc = "call"
  /\ QIdle /\ HIdle /\ DIdle /\ BIdle /\ CIdle /\ PIdle

\* applyDithering working in the caller's grid; not what it does.
NewRGBAInPlace ==
  /\ fpc = "call"
  /\ result' = dithImg
  /\ fpc' = "copy"
  /\ UNCHANGED <<heap, dithImg, dithThreshold, dithX, dithY,
                 qvars, hvars, dvars, bvars, cvars, pvars>>

\* applyDithering: result := image.NewRGBA(bounds), a new object.
NewRGBA ==
  /\ fpc = "call"
  /\ heap' = Append(heap, NewRGBAGrid(heap[dithImg].W, heap[dithImg].H))
  /\ result' = Len(heap) + 1
  /\ fpc' = "copy"
  /\ UNCHANGED <<dithImg, dithThreshold, dithX, dithY,
                 qvars, hvars, dvars, bvars, cvars, pvars>>

\* applyDithering: "Copy image to result so we can modify it"
CopyPixels ==
  /\ fpc = "copy"
  /\ heap' = [heap EXCEPT ![result] = copyPixels(heap[dithImg], @)]
  /\ dithX' = 0 /\ dithY' = 0
  /\ fpc' = "loop"
  /\ UNCHANGED <<dithImg, dithThreshold, result, qvars, hvars, dvars, bvars, cvars, pvars>>

\* applyDithering: one turn of the Floyd-Steinberg loops, at (dithX, dithY).
DitherPixel ==
  /\ fpc = "loop"
  /\ dithY < heap[result].H /\ dithX < heap[result].W
  /\ heap' = [heap EXCEPT ![result] = ditherPixel(@, dithX, dithY, dithThreshold)]
  /\ IF dithX + 1 < heap[result].W
     THEN dithX' = dithX + 1 /\ dithY' = dithY
     ELSE dithX' = 0 /\ dithY' = dithY + 1
  /\ fpc' = "loop"
  /\ UNCHANGED <<dithImg, dithThreshold, result, qvars, hvars, dvars, bvars, cvars, pvars>>

\* applyDithering: the loops are over; return result.
ReturnResult ==
  /\ fpc = "loop"
  /\ dithY >= heap[result].H \/ heap[result].W = 0
  /\ fpc' = "done"
  /\ UNCHANGED <<heap, dithImg, dithThreshold, result, dithX, dithY,
                 qvars, hvars, dvars, bvars, cvars, pvars>>

NextDither == NewRGBA \/ CopyPixels \/ DitherPixel \/ ReturnResult

SpecDither == InitDither /\ [][NextDither]_vars

(***************************************************************************)
(* Properties of applyDithering.                                           *)
(***************************************************************************)

\* The grid applyDithering works on, and the one it was given.
Work == heap[result]
Given == heap[dithImg]

\* A turn of the Floyd-Steinberg loops is being taken.
DitherTurn == fpc = "loop" /\ fpc' = "loop" /\ <<dithX, dithY>>' # <<dithX, dithY>>

\* n/d truncated toward zero.
TowardZero(n, d) == IF n >= 0 THEN n \div d ELSE 0 - ((0 - n) \div d)

Clamp255(v) == IF v < 0 THEN 0 ELSE IF v > 255 THEN 255 ELSE v

\* The sixteenths of the error due to the pixel at (dx, dy) from the one
\* quantized: 7 right, 3 below-left, 5 below, 1 below-right, 0 elsewhere.
Sixteenths(dx, dy) ==
  IF dx = 1 /\ dy = 0 THEN 7
  ELSE IF dx = 0 - 1 /\ dy = 1 THEN 3
  ELSE IF dx = 0 /\ dy = 1 THEN 5
  ELSE IF dx = 1 /\ dy = 1 THEN 1
  ELSE 0

RGB(p) == <<p[1], p[2], p[3]>>

C24_InputUntouched ==
  [][ /\ fpc # "idle" => heap'[dithImg] = heap[dithImg]
      /\ fpc' = "done" =>
           /\ result' # dithImg
           /\ heap'[result'].W = heap[dithImg].W /\ heap'[result'].H = heap[dithImg].H
    ]_vars

\* The result differs from the grid given, which is as it was.
C24_Witness ==
  /\ fpc = "done" /\ result # dithImg
  /\ Given.W = 3 /\ Given.H = 2
  /\ \A i \in 1..6 : Given.pix[i] = Orange
  /\ Work.pix # Given.pix

\* The sum of the pixel values of a grid.
RECURSIVE EnergyFrom(_, _)
EnergyFrom(m, i) ==
  IF i > m.W * m.H THEN 0 ELSE m.pix[i][1] + m.pix[i][2] + m.pix[i][3] + EnergyFrom(m, i + 1)

Energy(m) == EnergyFrom(m, 1)

\* C25 as stated: there are a grid g and a threshold t for which dithering
\* the dithered grid again changes a pixel, the sums of the pixel values of
\* the two grids being equal.
C25_NotAProjection ==
  /\ fpc # "idle"
  /\ \E m \in DitherGrids, t \in DitherThresholds :
       LET once == applyDithering(m, t)
           twice == applyDithering(once, t)
       IN twice.pix # once.pix /\ Energy(twice) = Energy(once)

\* C25 amended: dithering is a projection: for every grid g and threshold t
\* applyDithering(applyDithering(g, t), t) equals applyDithering(g, t) in
\* every pixel, so in the sum of the pixel values too.
C25_Projection ==
  fpc = "done" =>
    /\ Work = applyDithering(Given, dithThreshold)
    /\ applyDithering(Work, dithThreshold).pix = Work.pix
    /\ Energy(applyDithering(Work, dithThreshold)) = Energy(Work)

\* A grid that dithering changed, black and white pixels in the result.
C25_Witness ==
  /\ fpc = "done" /\ Work.W = 3 /\ Work.H = 2
  /\ \A i \in 1..6 : Given.pix[i] = Orange
  /\ dithThreshold = 200
  /\ \E i, j \in 1..6 : Work.pix[i][1] = 0 /\ Work.pix[j][1] = 255

\* The pixels already quantized: those before (dithX, dithY) in raster order.
Quantized == {i \in 1..(Work.W * Work.H) : i <= dithY * Work.W + dithX}

\* C26: a turn of the loops changes, besides the pixel it quantizes, only
\* pixels that come later in raster order (its right, below-left, below and
\* below-right neighbours), so every share of error a pixel receives reaches
\* it before its own turn; a pixel once quantized is never changed again.
C26_RasterOrder ==
  [][ fpc = "loop" =>
        /\ \A i \in Quantized : heap'[result].pix[i] = Work.pix[i]
        /\ \A i \in 1..(Work.W * Work.H) :
             heap'[result].pix[i] # Work.pix[i] =>
               /\ i >= dithY * Work.W + dithX + 1
               /\ i > dithY * Work.W + dithX + 1 =>
                    Sixteenths(((i - 1) % Work.W) - dithX, ((i - 1) \div Work.W) - dithY) # 0
    ]_vars

\* The last pixel of the first row is about to be quantized, having
\* received error from its left neighbour; the pixels before it are black
\* or white.
C26_Witness ==
  /\ fpc = "loop" /\ Work.W = 3 /\ Work.H = 2 /\ dithX = 2 /\ dithY = 0
  /\ Given.pix[3] = Orange /\ Work.pix[3] # Given.pix[3]
  /\ Work.pix[1][1] \in {0, 255} /\ Work.pix[2][1] \in {0, 255}

\* C28: every pixel of the grid applyDithering returns is (0,0,0) or
\* (255,255,255) with alpha 255.
C28_BlackOrWhite ==
  fpc = "done" =>
    \A i \in 1..(Work.W * Work.H) :
      Work.pix[i] \in {<<0, 0, 0, 255>>, <<255, 255, 255, 255>>}

\* Transparent and orange pixels went in, black and white ones came out.
C28_Witness ==
  /\ fpc = "done" /\ Work.W = 3 /\ Work.H = 2
  /\ Given.pix[1] = Clear /\ Given.pix[2] = Orange
  /\ \E i, j \in 1..6 : Work.pix[i] = <<0, 0, 0, 255>> /\ Work.pix[j] = <<255, 255, 255, 255>>

(***************************************************************************)
(* Convert (package braille): resize, applyDithering when opts.Dither,     *)
(* then the cells.  The grids live in heap; bGrid is the local resized.    *)
(***************************************************************************)

\* ansiColor: fmt.Sprintf("\x1b[38;5;%dm", code)
ansiColor(c) == <<27, 91, 51, 56, 59, 53, 59>> \o Itoa(c) \o <<109>>

\* Convert (package braille): what the body of the loop over col appends to
\* line; extractBlock, blockToBraille, blockToANSI and ansiReset are those
\* of package dots word for word.
brailleCell(m, col, row, o) ==
  LET block == extractBlock(m, col * 2, row * 4)
      char == blockToBraille(block, o.Threshold)
  IN IF o.Color
     THEN ansiColor(blockToANSI(block)) \o <<char>> \o ansiReset
     ELSE <<char>>

\* Convert (package braille): the loop over col, from col on.
RECURSIVE brailleLine(_, _, _, _, _)
brailleLine(m, row, o, col, line) ==
  IF col >= o.Width THEN line
  ELSE brailleLine(m, row, o, col + 1, line \o brailleCell(m, col, row, o))

\* Convert (package braille): lines after the loop over row.
brailleLines(m, o) == [row \in 1..o.Height |-> brailleLine(m, row - 1, o, 0, <<>>)]

\* Inputs of Convert (package braille): 0..MaxCols by 0..MaxRows cells, the
\* default and an explicit threshold, each of Dither and Color on and off.
MaxCols == 2
MaxRows == 1
BrailleOptions ==
  [Width : 0..MaxCols, Height : 0..MaxRows, Threshold : {0, 128},
   Dither : BOOLEAN, Color : BOOLEAN]

\* What the resampler may put in a grid of W x H pixels: one of
\* DitherColours throughout, orange and white pixels in a chequer-board, or
\* orange in the first column and transparent black elsewhere.
Fills == {"clear", "orange", "white", "chequer", "edge"}
Filled(W, H, fill) ==
  [W |-> W, H |-> H,
   pix |-> [i \in 1..(W * H) |->
              LET x == (i - 1) % W
                  y == (i - 1) \div W
              IN CASE fill = "clear" -> Clear
                   [] fill = "orange" -> Orange
                   [] fill = "white" -> Opaque(White)
                   [] fill = "chequer" -> IF (x + y) % 2 = 0 THEN Orange ELSE Opaque(White)
                   [] OTHER -> IF x = 0 THEN Orange ELSE Clear]]

InitBraille ==
  /\ bOpts \in BrailleOptions
  /\ bStage = "Init"
  /\ bTarget = <<0, 0>>
  /\ bGrid = 0
  /\ bLines = <<>>
  /\ QIdle /\ HIdle /\ DIdle /\ BIdle /\ CIdle /\ FIdle

\* Convert (package braille): "Set defaults".
BrailleResolveOptions ==
  /\ bStage = "Init"
  /\ bOpts' = [bOpts EXCEPT !.Threshold = IF @ = 0 THEN 20 ELSE @]
  /\ bStage' = "ResolveOptions"
  /\ UNCHANGED <<bTarget, bGrid, bLines, qvars, hvars, dvars, bvars, cvars, fvars>>

\* Convert (package braille): targetWidth := opts.Width * 2 and
\* targetHeight := opts.Height * 4, the dimensions as given.
BrailleResolveDimensions ==
  /\ bStage = "ResolveOptions"
  /\ bTarget' = <<bOpts.Width * 2, bOpts.Height * 4>>
  /\ bStage' = "ResolveDimensions"
  /\ UNCHANGED <<bOpts, bGrid, bLines, qvars, hvars, dvars, bvars, cvars, fvars>>

\* Convert (package braille): resized := resize(img, targetWidth,
\* targetHeight), a new grid with what the resampler puts in it.
BrailleResample ==
  /\ bStage = "ResolveDimensions"
  /\ \E fill \in Fills :
       heap' = Append(heap, Filled(bTarget[1], bTarget[2], fill))
  /\ bGrid' = Len(heap) + 1
  /\ bStage' = "Resample"
  /\ UNCHANGED <<bOpts, bTarget, bLines, dithImg, dithThreshold, result, dithX, dithY, fpc,
                 qvars, hvars, dvars, bvars, cvars>>

\* Convert (package braille): the call applyDithering(resized, opts.Threshold).
BrailleDither ==
  /\ bStage = "Resample"
  /\ bOpts.Dither
  /\ dithImg' = bGrid
  /\ dithThreshold' = bOpts.Threshold
  /\ result' = 0
  /\ dithX' = 0 /\ dithY' = 0
  /\ fpc' = "call"
  /\ bStage' = "Dither"
  /\ UNCHANGED <<bOpts, bTarget, bGrid, bLines, heap, qvars, hvars, dvars, bvars, cvars>>

\* Convert (package braille) with what applyDithering returns thrown away;
\* not what Convert does.
BrailleDitheredDropped ==
  /\ bStage = "Dither"
  /\ fpc = "done"
  /\ fpc' = "idle"
  /\ UNCHANGED <<bOpts, bStage, bTarget, bGrid, bLines, heap, dithImg, dithThreshold, result,
                 dithX, dithY, qvars, hvars, dvars, bvars, cvars>>

\* Convert (package braille): resized = (what applyDithering returned).
BrailleDithered ==
  /\ bStage = "Dither"
  /\ fpc = "done"
  /\ bGrid' = result
  /\ fpc' = "idle"
  /\ UNCHANGED <<bOpts, bStage, bTarget, bLines, heap, dithImg, dithThreshold, result,
                 dithX, dithY, qvars, hvars, dvars, bvars, cvars>>

\* Convert (package braille) going on to the cells while applyDithering is
\* in its loops; not what Convert does.
BrailleRenderBlocksEarly ==
  /\ \/ bStage = "Resample" /\ ~bOpts.Dither
     \/ bStage = "Dither" /\ fpc \in {"loop", "idle"}
  /\ bLines' = brailleLines(heap[IF fpc = "loop" THEN result ELSE bGrid], bOpts)
  /\ bStage' = "RenderBlocks"
  /\ fpc' = "idle"
  /\ UNCHANGED <<bOpts, bTarget, bGrid, heap, dithImg, dithThreshold, result, dithX, dithY,
                 qvars, hvars, dvars, bvars, cvars>>

\* Convert (package braille): "Step 2 & 3: Brightness and color
\* quantization", the loops over row and col that fill lines.
BrailleRenderBlocks ==
  /\ \/ bStage = "Resample" /\ ~bOpts.Dither
     \/ bStage = "Dither" /\ fpc = "idle"
  /\ bLines' = brailleLines(heap[bGrid], bOpts)
  /\ bStage' = "RenderBlocks"
  /\ UNCHANGED <<bOpts, bTarget, bGrid, fvars, qvars, hvars, dvars, bvars, cvars>>

\* Convert (package braille): return lines
BrailleReturn ==
  /\ bStage = "RenderBlocks"
  /\ bStage' = "Done"
  /\ UNCHANGED <<bOpts, bTarget, bGrid, bLines, fvars, qvars, hvars, dvars, bvars, cvars>>

NextBraille ==
  \/ BrailleResolveOptions \/ BrailleResolveDimensions \/ BrailleResample
  \/ BrailleDither
  \/ NewRGBA \/ CopyPixels \/ DitherPixel \/ ReturnResult
  \/ BrailleDithered \/ BrailleRenderBlocks \/ BrailleReturn

SpecBraille == InitBraille /\ [][NextBraille]_vars

(***************************************************************************)
(* Properties of Convert (package braille), and of both Converts.          *)
(***************************************************************************)

\* The number the decimal digits ds (as runes) spell.
RECURSIVE Spelt(_)
Spelt(ds) ==
  IF ds = <<>> THEN 0
  ELSE 10 * Spelt(SubSeq(ds, 1, Len(ds) - 1)) + (ds[Len(ds)] - 48)

\* The foreground codes of a line in order: after each ESC [ 3 8 ; 5 ; the
\* digits up to the next rune that is not a digit.
ForegroundCodes(s) ==
  LET intro == <<27, 91, 51, 56, 59, 53, 59>>
      starts == {i \in 1..(Len(s) - 6) : SubSeq(s, i, i + 6) = intro}
      IsStart(i) == i \in starts
      at == SelectSeq([i \in 1..Len(s) |-> i], IsStart)
      End(i) == CHOOSE j \in (i + 6)..Len(s) :
                  /\ \A k \in (i + 7)..j : s[k] \in 48..57
                  /\ (j = Len(s) \/ s[j + 1] \notin 48..57)
  IN [n \in 1..Len(at) |-> Spelt(SubSeq(s, at[n] + 7, End(at[n])))]

\* The codes of black, of white and of the grey ramp.
Neutral == {16, 231} \cup 232..255

\* C29: when Convert of package braille returns with Dither and Color on, the
\* grid the cells were taken from is the dithered one, every line carries
\* one foreground code per cell, and every such code is 16, 231 or in
\* 232..255, never a code of the colour cube.
C29_NeutralWhenDithered ==
  (bStage = "Done" /\ bOpts.Dither /\ bOpts.Color) =>
    /\ bGrid = result /\ bGrid # dithImg
    /\ heap[bGrid] = applyDithering(heap[dithImg], bOpts.Threshold)
    /\ Len(bLines) = bOpts.Height
    /\ \A row \in 1..Len(bLines) :
         /\ Len(ForegroundCodes(bLines[row])) = bOpts.Width
         /\ \A n \in 1..bOpts.Width : ForegroundCodes(bLines[row])[n] \in Neutral

\* An orange and white chequer-board, whose first cell undithered would get
\* a code of the colour cube, came out with two cells of neutral codes.
C29_Witness ==
  /\ bStage = "Done" /\ bOpts.Dither /\ bOpts.Color
  /\ bOpts.Width = 2 /\ bOpts.Height = 1
  /\ heap[dithImg].pix[1] = Orange /\ heap[dithImg].pix[2] = Opaque(White)
  /\ blockToANSI(extractBlock(heap[dithImg], 0, 0)) \notin Neutral
  /\ Len(ForegroundCodes(bLines[1])) = 2
  /\ ForegroundCodes(bLines[1])[1] \in Neutral

(***************************************************************************)
(* Either Convert, run to its end.                                         *)
(***************************************************************************)

\* Inputs of a Convert run to its end: of package dots the 8x16 image asked
\* for as many columns as rows at threshold 128 with no background and
\* NO_COLOR unset; of package braille all of InitBraille.
InitPipeline ==
  \/ /\ Init
     /\ img = [W |-> 8, H |-> 16]
     /\ opts.Width = opts.Height
     /\ opts.Threshold = 128 /\ opts.BackgroundColor = NilColor /\ ~noColorEnv
  \/ InitBraille

NextPipeline == Next \/ NextBraille

\* Convert is straight-line code with bounded loops: it goes on until it
\* returns.
SpecPipeline == InitPipeline /\ [][NextPipeline]_vars /\ WF_vars(NextPipeline)

\* The stage of the Convert that is running.
Stage == IF stage # "idle" THEN stage ELSE bStage

StageRank(s) ==
  CASE s = "Init" -> 0
    [] s = "ResolveOptions" -> 1
    [] s = "ResolveDimensions" -> 2
    [] s = "Resample" -> 3
    [] s = "Dither" -> 4
    [] s = "RenderBlocks" -> 5
    [] s = "Frame" -> 6
    [] s = "Done" -> 7

\* The steps from stage to stage: Dither, when enabled, takes a step per
\* pixel; Frame, when enabled, is the step from RenderBlocks to Done.
StageSteps ==
  {<<"Init", "ResolveOptions">>, <<"ResolveOptions", "ResolveDimensions">>,
   <<"ResolveDimensions", "Resample">>,
   <<"Resample", "Dither">>, <<"Dither", "Dither">>, <<"Dither", "RenderBlocks">>,
   <<"Resample", "RenderBlocks">>, <<"RenderBlocks", "Done">>}

\* A pixel of some grid is written by the step.
PixelWritten ==
  \E n \in 1..Len(heap) : heap'[n] # heap[n]

\* The grid resize returned is whole: every pixel of 2*Width by 4*Height.
Resampled ==
  /\ bGrid \in 1..Len(heap)
  /\ bTarget = <<2 * bOpts.Width, 4 * bOpts.Height>>
  /\ heap[bGrid].W = 2 * bOpts.Width /\ heap[bGrid].H = 4 * bOpts.Height
  /\ DOMAIN heap[bGrid].pix = 1..(heap[bGrid].W * heap[bGrid].H)

\* Every pixel of the grid is black or white, opaque.
Binary(m) ==
  \A i \in 1..(m.W * m.H) : m.pix[i] \in {<<0, 0, 0, 255>>, <<255, 255, 255, 255>>}

\* C27: the stages come in the order Init, ResolveOptions, ResolveDimensions,
\* Resample, Dither, RenderBlocks, Frame, Done, none of them entered twice
\* (package dots has no Dither stage, package braille no Frame stage); no
\* pixel is dithered before the resampled grid is whole; dithering is only done when enabled, and then
\* every pixel is quantized before the first block is rendered; the frame is
\* only added when enabled, and then around all the rows; and Convert always
\* reaches Done.
C27_StageOrder ==
  /\ [][/\ StageRank(Stage') >= StageRank(Stage)
        /\ <<Stage, Stage'>> \in StageSteps
        /\ fpc' # "idle" => (bStage' = "Dither" /\ bOpts.Dither)
        /\ (PixelWritten \/ fpc' \in {"loop", "done"}) =>
             (Resampled /\ heap'[bGrid] = heap[bGrid])
        /\ (bStage' = "RenderBlocks" /\ bStage # "RenderBlocks") =>
             /\ Resampled
             /\ Len(bLines') = bOpts.Height
             /\ IF bOpts.Dither
                THEN /\ bStage = "Dither" /\ fpc = "idle" /\ bGrid = result
                     /\ dithY >= heap[bGrid].H \/ heap[bGrid].W = 0
                     /\ Binary(heap[bGrid])
                ELSE bStage = "Resample" /\ Len(heap) = 1
        /\ (stage' = "RenderBlocks" /\ stage # "RenderBlocks") =>
             (stage = "Resample" /\ Len(lines') = opts.Height)
        /\ (stage = "RenderBlocks" /\ stage' = "Done") =>
             /\ Len(lines) = opts.Height
             /\ IF opts.Frame
                THEN Len(lines') = IF Len(lines) = 0 THEN 0 ELSE Len(lines) + 2
                ELSE lines' = lines
       ]_vars
  /\ <>(Stage = "Done")

\* Convert of package braille has returned two cells of a dithered grid.
C27_Witness ==
  /\ bStage = "Done" /\ bOpts.Dither
  /\ bOpts.Width = 2 /\ bOpts.Height = 1
  /\ Binary(heap[bGrid]) /\ ~Binary(heap[dithImg])
  /\ Len(bLines) = 1

====
